---- MODULE Spec2Model ----
(***************************************************************************)
(* Model of the NIP-60 ecash wallet (src/src/nip60.rs): the relay event    *)
(* log, the ledger reconstruction of fetch_wallet_state, and the wallet    *)
(* operations redeem and send_with_target_mint that publish to the log.    *)
(***************************************************************************)
EXTENDS Integers, Sequences, FiniteSets, TLC

VARIABLES
    log,        \* events held by the relays, in publication order; id = position
    state,      \* the WalletState last returned by fetch_wallet_state
    result,     \* what the last operation returned
    mints,      \* Nip60Wallet.mints, the configured (trusted) mint list
    spent,      \* the mint side: dedup ids (c) of proofs the mints have invalidated
    now,        \* the clock that stamps created_at on the wallet's own events
    fresh,      \* number of proofs the mints have signed for this wallet so far
    mint_infos, \* Nip60Wallet.mint_infos: the keysets known for each configured mint
    inflight,   \* redeem calls in progress, one per wallet instance, with their position
    mint_wallets \* MultimintWallet.mint_wallets: unit, active flag and balance per mint

vars == <<log, state, result, mints, spent, now, fresh, mint_infos, inflight,
         mint_wallets>>

----------------------------------------------------------------------------
(* Bounds of the model *)

MaxEvents == 3      \* events on the relays
MaxTime == 2        \* created_at values 1..MaxTime
MaxLog == 4         \* events the wallet's own operations may leave on the relays

----------------------------------------------------------------------------
(* Data model: Proof, TokenData and the three event kinds of the fetch filter *)

\* cdk Proof: amount, keyset_id, secret, c (the unblinded signature)
Proof(a, k, s, sig) == [amount |-> a, keyset_id |-> k, secret |-> s, c |-> sig]

\* kinds::TOKEN event; content says how far decrypt + parse of the content gets
TokenEv(i, t, cont, m, ps, d) ==
    [id |-> i, kind |-> "token", created_at |-> t, content |-> cont, mint |-> m,
     proofs |-> ps, del |-> d, tags |-> {}, direction |-> "", amount |-> 0,
     events |-> <<>>]

\* Kind::EventDeletion event with one Tag::event per referenced id
DeletionEv(i, t, ids) ==
    [id |-> i, kind |-> "deletion", created_at |-> t, content |-> "ok", mint |-> "",
     proofs |-> <<>>, del |-> {}, tags |-> ids, direction |-> "", amount |-> 0,
     events |-> <<>>]

\* kinds::SPENDING_HISTORY event: SpendingHistory{direction, amount, events}
HistoryEv(i, t, dir, amt, refs) ==
    [id |-> i, kind |-> "history", created_at |-> t, content |-> "ok", mint |-> "",
     proofs |-> <<>>, del |-> {}, tags |-> {}, direction |-> dir, amount |-> amt,
     events |-> refs]

\* what an operation returned: Ok or the Err it stopped at, the amount returned,
\* the proofs of the token string returned, and the requests it made to the mint
Result(o, st, v, tok, calls) ==
    [op |-> o, status |-> st, value |-> v, token |-> tok, mint_calls |-> calls]

\* MintInfo.keysets entry: KeysetInfo{id, unit, active}
KeysetInfo(i, u, a) == [id |-> i, unit |-> u, active |-> a]

\* mint_infos after initialize_mint_infos reached a mint with one active sat keyset
ActiveSatInfos == [m \in {"mintA"} |-> <<KeysetInfo("ks1", "sat", TRUE)>>]

----------------------------------------------------------------------------
(* Helpers on sequences *)

Range(s) == {s[i] : i \in 1..Len(s)}

RECURSIVE SumAmounts(_)
SumAmounts(ps) ==
    IF ps = <<>> THEN 0 ELSE Head(ps).amount + SumAmounts(Tail(ps))

\* all orderings of the elements of a sequence
Orders(s) ==
    LET n == Len(s)
        perms == {f \in [1..n -> 1..n] : \A i, j \in 1..n : i # j => f[i] # f[j]}
    IN  {[k \in 1..n |-> s[f[k]]] : f \in perms}

----------------------------------------------------------------------------
(* Ledger reconstruction: Nip60Wallet::fetch_wallet_state *)

\* the WalletState of a wallet with no proofs
EmptyState == [balance |-> 0, proofs |-> <<>>, proof_to_event_id |-> <<>>]

\* mutant: a DeletionEvent counts only against TOKEN events that are not newer
DeletedIds_OnlyOlderTargets(events) ==
    UNION {{i \in events[d].tags :
              \A k \in 1..Len(events) :
                  events[k].id = i => events[k].created_at <= events[d].created_at}
           : d \in {j \in 1..Len(events) : events[j].kind = "deletion"}}

\* ids referenced by the Tag::event tags of the EventDeletion events
DeletedIds(events) ==
    UNION {events[i].tags : i \in {j \in 1..Len(events) : events[j].kind = "deletion"}}

\* token_events.sort_by_key(Reverse(created_at)): a stable sort, newest first,
\* events of equal created_at stay in the order the fetch yielded them
SortTokenEvents(events) ==
    LET toks == SelectSeq(events, LAMBDA e : e.kind = "token")
        n == Len(toks)
        rank(i) == 1 + Cardinality({j \in 1..n :
                        \/ toks[j].created_at > toks[i].created_at
                        \/ (toks[j].created_at = toks[i].created_at /\ j < i)})
    IN  [k \in 1..n |-> toks[CHOOSE i \in 1..n : rank(i) = k]]

\* the key of proof_seen and proof_to_event_id: format!("{}", proof.c)
ProofId(p) == p.c

\* mutant: proofs are pushed without consulting proof_seen
AddProof_NoDedup(acc, p, eid) ==
    [acc EXCEPT !.proof_seen = @ \cup {ProofId(p)},
                !.all_proofs = Append(@, p),
                !.proof_to_event_id =
                    IF ProofId(p) \in DOMAIN @ THEN @ ELSE @ @@ (ProofId(p) :> eid)]

\* one pass of the inner loop over token_data.proofs
AddProof(acc, p, eid) ==
    IF ProofId(p) \in acc.proof_seen
    THEN acc
    ELSE [acc EXCEPT !.proof_seen = @ \cup {ProofId(p)},
                     !.all_proofs = Append(@, p),
                     !.proof_to_event_id = @ @@ (ProofId(p) :> eid)]

RECURSIVE AddProofs(_, _, _)
AddProofs(acc, ps, eid) ==
    IF ps = <<>> THEN acc
    ELSE AddProofs(AddProof(acc, Head(ps), eid), Tail(ps), eid)

\* mutant: a decrypt or parse failure is propagated as the function's Err
SkipBadContent_Propagate(acc, ev) ==
    [acc EXCEPT !.status = "decrypt_failed"]

\* what a token event's content does to the pass when decrypt or parse fails
SkipBadContent(acc, ev) ==
    IF ev.content = "undecryptable"
    THEN [acc EXCEPT !.undecryptable_events = Append(@, ev.id)]
    ELSE acc

\* one pass of the loop over the sorted token events
ProcessEvent(acc, ev) ==
    IF ev.id \in acc.invalid_token_ids THEN acc
    ELSE IF ev.content # "ok" THEN SkipBadContent(acc, ev)
    ELSE LET a1 == [acc EXCEPT
                      !.invalid_token_ids = @ \cup ev.del,
                      !.undecryptable_events = SelectSeq(@, LAMBDA i : i \notin ev.del)]
         IN  IF ev.id \in a1.invalid_token_ids THEN a1
             ELSE AddProofs(a1, ev.proofs, ev.id)

RECURSIVE ProcessEvents(_, _)
ProcessEvents(acc, evs) ==
    IF evs = <<>> THEN acc
    ELSE ProcessEvents(ProcessEvent(acc, Head(evs)), Tail(evs))

\* the loop state after the whole pass over the fetched events
ReconstructPass(events) ==
    ProcessEvents([invalid_token_ids |-> DeletedIds(events),
                   proof_seen |-> {},
                   all_proofs |-> <<>>,
                   proof_to_event_id |-> <<>>,
                   undecryptable_events |-> <<>>,
                   status |-> "ok"],
                  SortTokenEvents(events))

\* the WalletState built from the pass
Reconstruct(events) ==
    LET acc == ReconstructPass(events)
    IN  [balance |-> SumAmounts(acc.all_proofs),
         proofs |-> acc.all_proofs,
         proof_to_event_id |-> acc.proof_to_event_id]

\* Ok or Err of fetch_wallet_state: the fetch itself can fail, the pass cannot
FetchStatus(transport_ok, events) ==
    IF ~transport_ok THEN "fetch_failed" ELSE ReconstructPass(events).status

ProofSet(st) == Range(st.proofs)

----------------------------------------------------------------------------
(* The relays as seen by fetch_wallet_state: any NIP-60 client holding the
   wallet's key may have published TOKEN and EventDeletion events. *)

P5 == Proof(5, "ks1", 1, 1)
P3 == Proof(3, "ks1", 2, 2)
P8 == Proof(8, "ks1", 3, 3)

ProofLists == {<<P5, P3>>, <<P8>>, <<P5>>}

EventIds == 1..MaxEvents
Times == 1..MaxTime

\* TokenData.del of a relay event: no id, or one id of another event
DelChoices(i) == {{}} \cup {{j} : j \in EventIds \ {i}}

NextId == Len(log) + 1

\* a TOKEN event with decryptable, well-formed TokenData reaches the relays
RelayToken ==
    /\ Len(log) < MaxEvents
    /\ \E t \in Times, ps \in ProofLists, d \in DelChoices(NextId) :
         log' = Append(log, TokenEv(NextId, t, "ok", "mintA", ps, d))
    /\ state' = EmptyState
    /\ result' = Result("publish", "ok", 0, <<>>, 0)
    /\ UNCHANGED <<mints, spent, now, fresh, mint_infos, inflight, mint_wallets>>

\* a TOKEN event whose content cannot be decrypted, or decrypts to no TokenData
RelayBadToken ==
    /\ Len(log) < MaxEvents
    /\ \E t \in Times, cont \in {"undecryptable", "unparsable"} :
         log' = Append(log, TokenEv(NextId, t, cont, "mintA", <<P8>>, {}))
    /\ state' = EmptyState
    /\ result' = Result("publish", "ok", 0, <<>>, 0)
    /\ UNCHANGED <<mints, spent, now, fresh, mint_infos, inflight, mint_wallets>>

\* an EventDeletion event referencing one event id reaches the relays
RelayDeletion ==
    /\ Len(log) < MaxEvents
    /\ \E t \in Times, i \in EventIds \ {NextId} :
         log' = Append(log, DeletionEv(NextId, t, {i}))
    /\ state' = EmptyState
    /\ result' = Result("publish", "ok", 0, <<>>, 0)
    /\ UNCHANGED <<mints, spent, now, fresh, mint_infos, inflight, mint_wallets>>

\* fetch_wallet_state: the relays deliver the events in some order
FetchWalletState ==
    /\ \E events \in Orders(log), transport_ok \in BOOLEAN :
         LET st == FetchStatus(transport_ok, events)
         IN  /\ result' = Result("fetch_wallet_state", st, 0, <<>>, 0)
             /\ state' = IF st = "ok" THEN Reconstruct(events) ELSE EmptyState
    /\ UNCHANGED <<log, mints, spent, now, fresh, mint_infos, inflight, mint_wallets>>

InitLedger ==
    /\ log = <<>>
    /\ state = EmptyState
    /\ result = Result("none", "ok", 0, <<>>, 0)
    /\ mints = <<"mintA">>
    /\ spent = {}
    /\ now = 1
    /\ fresh = 0
    /\ mint_infos = ActiveSatInfos
    /\ inflight = <<>>
    /\ mint_wallets = <<>>

NextLedger ==
    \/ RelayToken
    \/ RelayBadToken
    \/ RelayDeletion
    \/ FetchWalletState

SpecLedger == InitLedger /\ [][NextLedger]_vars

----------------------------------------------------------------------------
(* Vocabulary of the ledger claims *)

\* fetch_wallet_state has just returned Ok(state) for the events now on the relays
Fetched == result.op = "fetch_wallet_state" /\ result.status = "ok"

TokenEvents(events) == {e \in Range(events) : e.kind = "token"}

\* TOKEN events whose TokenData can be read
ReadableTokens(events) == {e \in TokenEvents(events) : e.content = "ok"}

\* named in the del list of another TOKEN event of the set
Superseded(events, i) ==
    \E f \in ReadableTokens(events) : f.id # i /\ i \in f.del

\* referenced by the tags of some DeletionEvent of the set
Deleted(events, i) ==
    \E d \in Range(events) : d.kind = "deletion" /\ i \in d.tags

\* neither referenced by a DeletionEvent nor superseded
Surviving(events, e) ==
    /\ e \in ReadableTokens(events)
    /\ ~Deleted(events, e.id)
    /\ ~Superseded(events, e.id)

Without(events, i) == SelectSeq(events, LAMBDA e : e.id # i)

SameLedger(s1, s2) ==
    /\ s1.balance = s2.balance
    /\ ProofSet(s1) = ProofSet(s2)

SameState(s1, s2) ==
    /\ SameLedger(s1, s2)
    /\ s1.proof_to_event_id = s2.proof_to_event_id

\* C2: every proof of a returned WalletState lies in a TOKEN event of the fetched
\* set that is neither deleted nor named in another TOKEN event's del list
C2_ProofsBelongToSurvivingEvent ==
    Fetched =>
        \A p \in ProofSet(state) :
            \E e \in ReadableTokens(log) :
                p \in Range(e.proofs) /\ Surviving(log, e)

\* C3: with TOKEN events A and B, B naming A in del and B neither deleted nor
\* superseded, the state holds exactly B's proofs, all mapped to B, and the
\* balance is the sum of B's proofs
C3_SupersededEventReplaced ==
    Fetched =>
        \A a, b \in TokenEvents(log) :
            (/\ TokenEvents(log) = {a, b}
             /\ a.id # b.id
             /\ b.content = "ok"
             /\ a.id \in b.del
             /\ Surviving(log, b))
            => /\ ProofSet(state) = Range(b.proofs)
               /\ \A c \in DOMAIN state.proof_to_event_id :
                     state.proof_to_event_id[c] = b.id
               /\ state.balance = SumAmounts(b.proofs)

\* C4: a TOKEN event referenced by a DeletionEvent contributes nothing: no proof
\* is mapped to it, every reported proof lies in a TOKEN event that is not
\* deleted, and the state is the one reconstructed without the event
C4_DeletedEventContributesNothing ==
    Fetched =>
        \A e \in TokenEvents(log) :
            Deleted(log, e.id) =>
                /\ \A c \in DOMAIN state.proof_to_event_id :
                      state.proof_to_event_id[c] # e.id
                /\ \A p \in ProofSet(state) :
                      \E f \in ReadableTokens(log) :
                          ~Deleted(log, f.id) /\ p \in Range(f.proofs)
                /\ \E o \in Orders(Without(log, e.id)) : state = Reconstruct(o)

\* a deleted TOKEN event with proofs, the DeletionEvent older than it, next to a
\* TOKEN event that still counts
C4_Witness ==
    /\ Fetched
    /\ state.balance > 0
    /\ \E e \in ReadableTokens(log), d \in Range(log) :
          /\ d.kind = "deletion" /\ e.id \in d.tags
          /\ d.created_at < e.created_at /\ d.id < e.id
          /\ e.proofs # <<>>

C6_NoDuplicateProofIdentity ==
    Fetched =>
        \A i, j \in 1..Len(state.proofs) :
            i # j => <<state.proofs[i].secret, state.proofs[i].c>>
                     # <<state.proofs[j].secret, state.proofs[j].c>>

\* the same proof announced by two surviving TOKEN events and reported
C6_Witness ==
    /\ Fetched
    /\ \E e, f \in ReadableTokens(log) :
          /\ e.id # f.id
          /\ Surviving(log, e) /\ Surviving(log, f)
          /\ P5 \in Range(e.proofs) /\ P5 \in Range(f.proofs)
    /\ P5 \in ProofSet(state)

\* C7: the returned state does not depend on the order of delivery
C7_DeliveryOrderIrrelevant ==
    Fetched => \A o \in Orders(log) : SameState(Reconstruct(o), state)

\* C8: a TOKEN event that cannot be decrypted or parsed does not fail the
\* reconstruction and changes nothing in its result
C8_BadEventIsSkipped ==
    (result.op = "fetch_wallet_state" /\ result.status # "fetch_failed") =>
        /\ result.status = "ok"
        /\ \A e \in TokenEvents(log) :
              e.content # "ok" =>
                  /\ \A c \in DOMAIN state.proof_to_event_id :
                        state.proof_to_event_id[c] # e.id
                  /\ \E o \in Orders(Without(log, e.id)) : state = Reconstruct(o)

\* an unreadable TOKEN event, newest of the set, beside a readable one whose
\* proofs are reported
C8_Witness ==
    /\ Fetched
    /\ \E e, f \in TokenEvents(log) :
          /\ e.content = "undecryptable" /\ f.content = "ok"
          /\ e.created_at > f.created_at
          /\ f.proofs # <<>> /\ Range(f.proofs) \subseteq ProofSet(state)
    /\ \E e \in TokenEvents(log) : e.content = "unparsable"

----------------------------------------------------------------------------
(* Coin selection: Nip60Wallet::select_proofs_for_exact_amount *)

\* sorted_proofs.sort_by(|a, b| b.amount.cmp(&a.amount)): stable, largest first
SortProofsDesc(ps) ==
    LET n == Len(ps)
        rank(i) == 1 + Cardinality({j \in 1..n :
                        \/ ps[j].amount > ps[i].amount
                        \/ (ps[j].amount = ps[i].amount /\ j < i)})
    IN  [k \in 1..n |-> ps[CHOOSE i \in 1..n : rank(i) = k]]

\* mutant: the loop takes every non-zero proof until the amount is covered
RECURSIVE GreedyPass_TakesOvershoot(_, _, _)
GreedyPass_TakesOvershoot(sorted, remaining, selected) ==
    IF sorted = <<>> \/ remaining = 0
    THEN [selected_proofs |-> selected, remaining |-> remaining]
    ELSE LET value == Head(sorted).amount
         IN  IF value = 0
             THEN GreedyPass_TakesOvershoot(Tail(sorted), remaining, selected)
             ELSE GreedyPass_TakesOvershoot(
                      Tail(sorted),
                      IF value > remaining THEN 0 ELSE remaining - value,
                      Append(selected, Head(sorted)))

\* the loop over sorted_proofs: take a proof unless it is 0 or overshoots
RECURSIVE GreedyPass(_, _, _)
GreedyPass(sorted, remaining, selected) ==
    IF sorted = <<>> \/ remaining = 0
    THEN [selected_proofs |-> selected, remaining |-> remaining]
    ELSE LET value == Head(sorted).amount
         IN  IF value = 0 \/ value > remaining
             THEN GreedyPass(Tail(sorted), remaining, selected)
             ELSE GreedyPass(Tail(sorted), remaining - value,
                             Append(selected, Head(sorted)))

\* ids of the events the selected proofs are mapped to (keyed by proof.c)
SpentEventIds(st, selected) ==
    {st.proof_to_event_id[ProofId(p)] :
        p \in {q \in Range(selected) : ProofId(q) \in DOMAIN st.proof_to_event_id}}

Selection(st, send, consumed, ids) ==
    [status |-> st, send_proofs |-> send, all_consumed_proofs |-> consumed,
     spent_event_ids |-> ids]

\* mutant: a pass that ends short of the amount hands out what it has taken
SelectProofsForExactAmount_PartialOk(st, amount, target_mint) ==
    LET available_proofs == st.proofs
        available_amount == SumAmounts(available_proofs)
        pass == GreedyPass(SortProofsDesc(available_proofs), amount, <<>>)
        ids == SpentEventIds(st, pass.selected_proofs)
    IN  IF available_amount < amount
        THEN Selection("insufficient_balance_in_mint", <<>>, <<>>, {})
        ELSE Selection("ok", pass.selected_proofs, pass.selected_proofs, ids)

\* select_proofs_for_exact_amount on the state its own fetch returned
SelectProofsForExactAmount(st, amount, target_mint) ==
    LET available_proofs == st.proofs
        available_amount == SumAmounts(available_proofs)
        pass == GreedyPass(SortProofsDesc(available_proofs), amount, <<>>)
        selected_total == SumAmounts(pass.selected_proofs)
        ids == SpentEventIds(st, pass.selected_proofs)
    IN  IF available_amount < amount
        THEN Selection("insufficient_balance_in_mint", <<>>, <<>>, {})
        ELSE IF pass.remaining # 0
        THEN Selection("no_exact_combination", <<>>, <<>>, {})
        ELSE IF selected_total < amount
        THEN Selection("insufficient_selected", <<>>, <<>>, {})
        ELSE IF selected_total = amount
        THEN Selection("ok", pass.selected_proofs, pass.selected_proofs, ids)
        \* split_proofs_for_amounts hands the inputs back and no change proofs
        ELSE Selection("ok", pass.selected_proofs, available_proofs, ids)

----------------------------------------------------------------------------
(* Spending: Nip60Wallet::send_with_target_mint *)

\* events the relays return for the filter of fetch_wallet_state
\* (kinds WALLET, TOKEN, EventDeletion), in publication order
Fetchable(events) ==
    SelectSeq(events, LAMBDA e : e.kind \in {"token", "deletion"})

\* orders in which the relays may deliver them. Only the TOKEN events are
\* permuted: the pass reads the EventDeletion events through DeletedIds alone
Deliveries(events) ==
    LET toks == SelectSeq(events, LAMBDA e : e.kind = "token")
        dels == SelectSeq(events, LAMBDA e : e.kind = "deletion")
    IN  {o \o dels : o \in Orders(toks)}

\* all_consumed_proofs without the proofs of the token, compared by c
RemainingProofs(all_consumed_proofs, selected_proofs) ==
    SelectSeq(all_consumed_proofs,
              LAMBDA p : ~\E sp \in Range(selected_proofs) : sp.c = p.c)

\* enumerations of a set of ids (iteration order of the HashSet)
IdOrders(ids) ==
    {f \in [1..Cardinality(ids) -> ids] :
        \A i, j \in 1..Cardinality(ids) : i # j => f[i] # f[j]}

\* mutant: the deletions name the SpendingHistory event just published
DeletionEvents_OfHistory(ids, first, t) ==
    [i \in 1..Len(ids) |-> DeletionEv(first + i - 1, t, {first - 1})]

\* mutant: the last spent event is not deleted
DeletionEvents_SkipsLast(ids, first, t) ==
    [i \in 1..(Len(ids) - 1) |-> DeletionEv(first + i - 1, t, {ids[i]})]

\* one DeletionEv per id, numbered from id first
RECURSIVE DeletionEvents(_, _, _)
DeletionEvents(ids, first, t) ==
    IF ids = <<>> THEN <<>>
    ELSE <<DeletionEv(first, t, {Head(ids)})>>
         \o DeletionEvents(Tail(ids), first + 1, t)

DestroyedRefs(ids) == [i \in 1..Len(ids) |-> <<ids[i], "destroyed">>]

\* the steps of send_with_target_mint at which an Err can come from outside,
\* with the number of deletions published before a failing one
SendFailures(ids) ==
    {<<p, 0>> : p \in {"none", "fetch", "fetch_select", "publish_rollover",
                       "publish_history"}}
    \cup {<<"publish_deletion", k>> : k \in 0..(Cardinality(ids) - 1)}

\* the run of send_with_target_mint: deliveries d1 (its own fetch) and d2 (the
\* fetch of the selection), the failing step, and the order the spent ids are
\* walked in
SendRun(amount, target_mint, d1, d2, failure, id_order) ==
    LET fail == failure[1]
        deleted_before_fail == failure[2]
        st1 == Reconstruct(d1)
        st2 == Reconstruct(d2)
        mint_url == IF target_mint # "none" THEN target_mint
                    ELSE IF mints # <<>> THEN mints[1] ELSE ""
        sel == SelectProofsForExactAmount(st2, amount, mint_url)
        remaining_proofs == RemainingProofs(sel.all_consumed_proofs, sel.send_proofs)
        rollover == IF remaining_proofs # <<>> /\ mints # <<>>
                    THEN <<TokenEv(NextId, now, "ok", mints[1], remaining_proofs,
                                   sel.spent_event_ids)>>
                    ELSE <<>>
        refs == DestroyedRefs(id_order)
                \o (IF rollover # <<>> THEN <<<<NextId, "created">>>> ELSE <<>>)
        total_amount == SumAmounts(sel.send_proofs)
        history == <<HistoryEv(NextId + Len(rollover), now, "out", total_amount, refs)>>
        first_del == NextId + Len(rollover) + 1
        deletions == DeletionEvents(id_order, first_del, now)
        failed(st, evs, ws) ==
            [events |-> evs, state |-> ws, result |-> Result("send", st, 0, <<>>, 0)]
    IN  IF fail = "fetch" THEN failed("fetch_failed", <<>>, state)
        ELSE IF st1.balance < amount THEN failed("insufficient_balance", <<>>, st1)
        ELSE IF fail = "fetch_select" THEN failed("fetch_failed", <<>>, st1)
        ELSE IF sel.status # "ok" THEN failed(sel.status, <<>>, st2)
        ELSE IF sel.send_proofs = <<>> THEN failed("no_proofs_provided", <<>>, st2)
        ELSE IF mint_url = "" THEN failed("invalid_mint_url", <<>>, st2)
        ELSE IF remaining_proofs # <<>> /\ mints = <<>>
        THEN failed("no_mint_configured", <<>>, st2)
        ELSE IF rollover # <<>> /\ fail = "publish_rollover"
        THEN failed("publish_failed", <<>>, st2)
        ELSE IF fail = "publish_history" THEN failed("publish_failed", rollover, st2)
        ELSE IF fail = "publish_deletion"
        THEN failed("publish_failed",
                    rollover \o history \o SubSeq(deletions, 1, deleted_before_fail),
                    st2)
        ELSE [events |-> rollover \o history \o deletions,
              state |-> st2,
              result |-> Result("send", "ok", 0, sel.send_proofs, 0)]

\* send_with_target_mint(amount, target_mint, memo); "none" is target_mint None
SendWithTargetMint(amount, target_mint) ==
    /\ \E d1, d2 \in Deliveries(Fetchable(log)) :
         LET mint_url == IF target_mint # "none" THEN target_mint
                         ELSE IF mints # <<>> THEN mints[1] ELSE ""
             ids == SelectProofsForExactAmount(Reconstruct(d2), amount,
                                               mint_url).spent_event_ids
         IN  \E id_order \in IdOrders(ids), failure \in SendFailures(ids) :
                LET run == SendRun(amount, target_mint, d1, d2, failure, id_order)
                IN  /\ Len(log) + Len(run.events) <= MaxLog
                    /\ log' = log \o run.events
                    /\ state' = run.state
                    /\ result' = run.result
    /\ UNCHANGED <<mints, spent, now, fresh, mint_infos, inflight, mint_wallets>>

----------------------------------------------------------------------------
(* Redeeming: Nip60Wallet::redeem *)

\* token strings handed to the wallet by third parties
TokenA == [parses |-> TRUE, mint |-> "mintA",
           proofs |-> <<Proof(4, "ks1", 101, 101), Proof(1, "ks1", 102, 102)>>]
TokenB == [parses |-> TRUE, mint |-> "mintB",
           proofs |-> <<Proof(2, "ksB", 105, 105)>>]
Garbage == [parses |-> FALSE, mint |-> "", proofs |-> <<>>]

TokenStrings == {TokenA, TokenB, Garbage}

ProofIds(ps) == {ProofId(p) : p \in Range(ps)}

\* mutant: any well-formed mint URL passes
IsTrustedMint_AnyUrl(mint_url) == mint_url # ""

\* self.mints.iter().any(|m| m.clone() == mint_url)
IsTrustedMint(mint_url) == \E i \in 1..Len(mints) : mints[i] = mint_url

\* the steps of redeem at which an Err can come from outside
RedeemFailPoints ==
    {"none", "temp_wallet", "receive", "send", "publish_token", "publish_history"}

\* the mint's swap of the token's proofs: refused when one of them is spent
SwapAccepted(token, fail) ==
    fail # "receive" /\ ProofIds(token.proofs) \cap spent = {}

\* Ok or the Err redeem stops at
RedeemStatus(token, fail) ==
    IF ~token.parses THEN "parse_failed"
    ELSE IF ~IsTrustedMint(token.mint) THEN "untrusted_mint"
    ELSE IF fail = "temp_wallet" THEN "temp_wallet_failed"
    ELSE IF ~SwapAccepted(token, fail) THEN "redeem_failed"
    ELSE IF fail = "send" THEN "send_failed"
    ELSE IF fail = "publish_token" THEN "publish_token_failed"
    ELSE IF fail = "publish_history" THEN "publish_history_failed"
    ELSE "ok"

\* requests redeem has made to the mint when it stops: receive, then send
RedeemMintCalls(status) ==
    IF status \in {"parse_failed", "untrusted_mint", "temp_wallet_failed"} THEN 0
    ELSE IF status = "redeem_failed" THEN 1
    ELSE 2

\* largest power of two not above a (a > 0)
Pow2Floor(a) == CHOOSE d \in {2^k : k \in 0..14} : d <= a /\ (2 * d > a \/ d = 2^14)

\* the amounts of the proofs the temp wallet hands back for an amount
RECURSIVE SplitAmount(_)
SplitAmount(a) ==
    IF a = 0 THEN <<>> ELSE <<Pow2Floor(a)>> \o SplitAmount(a - Pow2Floor(a))

\* mutant: the token handed back is worth one unit less than the balance
FinalProofs_OneShort(amount, keyset) ==
    LET amts == SplitAmount(amount - 1)
    IN  [i \in 1..Len(amts) |-> Proof(amts[i], keyset, fresh + i, fresh + i)]

\* the proofs of new_token_string: fresh secrets and signatures
FinalProofs(amount, keyset) ==
    LET amts == SplitAmount(amount)
    IN  [i \in 1..Len(amts) |-> Proof(amts[i], keyset, fresh + i, fresh + i)]

\* mutant: the token's proofs are persisted before the swap is known to succeed
RedeemEvents_PersistBeforeSwap(token, status) ==
    LET redeemed_amount == SumAmounts(token.proofs)
        final_proofs == FinalProofs(redeemed_amount, token.proofs[1].keyset_id)
        early == TokenEv(NextId, now, "ok", token.mint, token.proofs, {})
        token_event == TokenEv(NextId, now, "ok", token.mint, final_proofs, {})
        history == HistoryEv(NextId + 1, now, "in", redeemed_amount,
                             <<<<NextId, "created">>>>)
    IN  IF status = "ok" THEN <<token_event, history>>
        ELSE IF status = "publish_history_failed" THEN <<token_event>>
        ELSE IF status \in {"redeem_failed", "send_failed"} THEN <<early>>
        ELSE <<>>

\* events redeem has published when it stops
RedeemEvents(token, status) ==
    LET redeemed_amount == SumAmounts(token.proofs)
        final_proofs == FinalProofs(redeemed_amount, token.proofs[1].keyset_id)
        token_event == TokenEv(NextId, now, "ok", token.mint, final_proofs, {})
        history == HistoryEv(NextId + 1, now, "in", redeemed_amount,
                             <<<<NextId, "created">>>>)
    IN  IF status = "ok" THEN <<token_event, history>>
        ELSE IF status = "publish_history_failed" THEN <<token_event>>
        ELSE <<>>

\* redeem(token_string)
Redeem(token) ==
    /\ \E fail \in RedeemFailPoints :
         LET status == RedeemStatus(token, fail)
             swapped == RedeemMintCalls(status) = 2
             signed == status \in {"publish_token_failed", "publish_history_failed", "ok"}
             amount == SumAmounts(token.proofs)
         IN  /\ Len(log) + Len(RedeemEvents(token, status)) <= MaxLog
             /\ log' = log \o RedeemEvents(token, status)
             /\ spent' = IF swapped THEN spent \cup ProofIds(token.proofs) ELSE spent
             /\ fresh' = IF signed THEN fresh + Len(SplitAmount(amount)) ELSE fresh
             /\ result' = Result("redeem", status,
                                 IF status = "ok" THEN amount ELSE 0,
                                 <<>>, RedeemMintCalls(status))
    /\ UNCHANGED <<state, mints, now, mint_infos, inflight, mint_wallets>>

\* someone else holding the token string swaps its proofs at the mint first
ThirdPartySpends(token) ==
    /\ token.parses
    /\ ProofIds(token.proofs) \cap spent = {}
    /\ spent' = spent \cup ProofIds(token.proofs)
    /\ UNCHANGED <<log, state, result, mints, now, fresh, mint_infos, inflight, mint_wallets>>

\* time passes between operations
Tick ==
    /\ now < MaxTime
    /\ now' = now + 1
    /\ UNCHANGED <<log, state, result, mints, spent, fresh, mint_infos, inflight, mint_wallets>>

----------------------------------------------------------------------------
(* The wallet over an event log that only it writes *)

MaxSend == 5        \* amounts 0..MaxSend are asked of send

TargetMints == {"none", "mintA"}

Init ==
    /\ log = <<>>
    /\ state = EmptyState
    /\ result = Result("none", "ok", 0, <<>>, 0)
    /\ mints = <<"mintA">>
    /\ spent = {}
    /\ now = 1
    /\ fresh = 0
    /\ mint_infos = ActiveSatInfos
    /\ inflight = <<>>
    /\ mint_wallets = <<>>

GetWalletState ==
    /\ \E events \in Deliveries(Fetchable(log)), transport_ok \in BOOLEAN :
         LET st == FetchStatus(transport_ok, events)
         IN  /\ result' = Result("fetch_wallet_state", st, 0, <<>>, 0)
             /\ state' = IF st = "ok" THEN Reconstruct(events) ELSE state
    /\ UNCHANGED <<log, mints, spent, now, fresh, mint_infos, inflight, mint_wallets>>

Next ==
    \/ \E token \in TokenStrings : Redeem(token)
    \/ \E amount \in 0..MaxSend, target_mint \in TargetMints :
          SendWithTargetMint(amount, target_mint)
    \/ \E token \in TokenStrings : ThirdPartySpends(token)
    \/ GetWalletState
    \/ Tick

Spec == Init /\ [][Next]_vars

----------------------------------------------------------------------------
(* Claims about send_with_target_mint and redeem *)

SendOk == result.op = "send" /\ result.status = "ok"

\* C1: after a successful send every proof of the state before the call that
\* is not in the outgoing token is still reconstructed, and the balance has
\* gone down by exactly the value of the token
C1_SendKeepsUnspentProofs ==
    SendOk =>
        \A d \in Deliveries(Fetchable(log)) :
            LET after == Reconstruct(d)
            IN  /\ \A p \in ProofSet(state) :
                      p \notin Range(result.token) => p \in ProofSet(after)
                /\ after.balance = state.balance - SumAmounts(result.token)

\* C9: when the mint refuses or fails the swap, redeem returns an error,
\* publishes nothing and leaves the reconstructed balance as it was
C9_FailedSwapPersistsNothing ==
    [][\A token \in TokenStrings :
          Redeem(token) =>
             /\ (/\ token.parses
                 /\ token.mint \in Range(mints)
                 /\ ProofIds(token.proofs) \cap spent # {})
                => result'.status \notin {"ok", "publish_history_failed"}
             /\ result'.status \in {"redeem_failed", "send_failed"}
                => /\ log' = log
                   /\ {Reconstruct(d).balance : d \in Deliveries(Fetchable(log'))}
                      = {Reconstruct(d).balance : d \in Deliveries(Fetchable(log))}]_vars

\* redeem of a token whose proofs are already spent has failed at the swap,
\* in a wallet that holds a balance
C9_Witness ==
    /\ result.op = "redeem" /\ result.status = "redeem_failed"
    /\ result.mint_calls = 1
    /\ ProofIds(TokenA.proofs) \subseteq spent
    /\ \E d \in Deliveries(Fetchable(log)) : Reconstruct(d).balance > 0

\* C10: redeem of a token of a mint outside the configured list fails as
\* untrusted before any request to the mint and publishes nothing
C10_UntrustedMintRejected ==
    [][\A token \in TokenStrings :
          (Redeem(token) /\ token.parses /\ token.mint \notin Range(mints))
          => /\ result'.status = "untrusted_mint"
             /\ result'.mint_calls = 0
             /\ log' = log
             /\ spent' = spent]_vars

\* redeem of the mintB token has been refused
C10_Witness ==
    /\ result.op = "redeem" /\ result.status = "untrusted_mint"
    /\ ProofIds(TokenB.proofs) \cap spent = {}
    /\ mints = <<"mintA">>

----------------------------------------------------------------------------
(* Spending from a wallet that holds several TOKEN events of two mints:
   send_with_target_mint, send_to_pubkey and record_spend *)

MaxHeld == 2        \* TOKEN events the wallet holds before it spends

\* Kind::EncryptedDirectMessage event carrying a token string to a recipient
DmEv(i, t, ps) ==
    [id |-> i, kind |-> "dm", created_at |-> t, content |-> "ok", mint |-> "",
     proofs |-> ps, del |-> {}, tags |-> {}, direction |-> "", amount |-> 0,
     events |-> <<>>]

Q8 == Proof(8, "ks1", 11, 11)
Q4 == Proof(4, "ks1", 12, 12)
Q2 == Proof(2, "ks1", 13, 13)
Q1 == Proof(1, "ks1", 14, 14)
R2a == Proof(2, "ks1", 15, 15)
R2b == Proof(2, "ks1", 16, 16)

\* TokenData.proofs of the events the wallet holds
HeldLists == {<<Q8, Q4, Q2, Q1>>, <<R2a, R2b>>, <<Q1>>}

HeldMints == {"mintA", "mintB"}

SpendAmounts == {3, 13}

SpendTargets == {"none", "mintB"}

\* Vec<EventId> and Proofs a caller hands to record_spend
RecordAmounts == {1}
SpentIdChoices == {<<>>, <<1>>, <<1, 2>>}
UnspentChoices == {<<>>, <<Q1>>}

\* a TOKEN event of one of the wallet's mints is on the relays
HoldToken ==
    /\ Len(log) < MaxHeld
    /\ \A i \in 1..Len(log) : log[i].kind = "token"
    /\ \E m \in HeldMints, ps \in HeldLists :
         log' = Append(log, TokenEv(NextId, now, "ok", m, ps, {}))
    /\ state' = EmptyState
    /\ result' = Result("publish", "ok", 0, <<>>, 0)
    /\ UNCHANGED <<mints, spent, now, fresh, mint_infos, inflight, mint_wallets>>

\* the steps of record_spend at which a publish can fail, with the number of
\* deletions published before a failing one
RecordSpendFailures(ids) ==
    {<<p, 0>> : p \in {"none", "publish_rollover", "publish_history"}}
    \cup {<<"publish_deletion", k>> : k \in 0..(Len(ids) - 1)}

\* mutant: the spent events are deleted before the rollover is published
RecordSpendRun_DeleteFirst(first, amount, spent_token_ids, unspent_proofs, failure) ==
    LET fail == failure[1]
        deletions == DeletionEvents(spent_token_ids, first, now)
        first_new == first + Len(deletions)
        needs_rollover == unspent_proofs # <<>>
        rollover == IF needs_rollover /\ mints # <<>>
                    THEN <<TokenEv(first_new, now, "ok", mints[1], unspent_proofs,
                                   Range(spent_token_ids))>>
                    ELSE <<>>
        refs == DestroyedRefs(spent_token_ids)
                \o (IF rollover # <<>> THEN <<<<first_new, "created">>>> ELSE <<>>)
        history == <<HistoryEv(first_new + Len(rollover), now, "out", amount, refs)>>
    IN  IF fail = "publish_deletion"
        THEN [events |-> SubSeq(deletions, 1, failure[2]), status |-> "publish_failed"]
        ELSE IF needs_rollover /\ (mints = <<>> \/ fail = "publish_rollover")
        THEN [events |-> deletions, status |-> "rollover_failed"]
        ELSE IF fail = "publish_history"
        THEN [events |-> deletions \o rollover, status |-> "publish_failed"]
        ELSE [events |-> deletions \o rollover \o history, status |-> "ok"]

\* record_spend(amount, spent_token_ids, unspent_proofs): the events it has
\* published when it returns, numbered from first, and Ok or the Err it returns
RecordSpendRun(first, amount, spent_token_ids, unspent_proofs, failure) ==
    LET fail == failure[1]
        needs_rollover == unspent_proofs # <<>>
        rollover == IF needs_rollover /\ mints # <<>>
                    THEN <<TokenEv(first, now, "ok", mints[1], unspent_proofs,
                                   Range(spent_token_ids))>>
                    ELSE <<>>
        deletions == DeletionEvents(spent_token_ids, first + Len(rollover), now)
        refs == DestroyedRefs(spent_token_ids)
                \o (IF rollover # <<>> THEN <<<<first, "created">>>> ELSE <<>>)
        history == <<HistoryEv(first + Len(rollover) + Len(deletions), now, "out",
                               amount, refs)>>
    IN  IF needs_rollover /\ (mints = <<>> \/ fail = "publish_rollover")
        THEN [events |-> <<>>, status |-> "rollover_failed"]
        ELSE IF fail = "publish_deletion"
        THEN [events |-> rollover \o SubSeq(deletions, 1, failure[2]),
              status |-> "publish_failed"]
        ELSE IF fail = "publish_history"
        THEN [events |-> rollover \o deletions, status |-> "publish_failed"]
        ELSE [events |-> rollover \o deletions \o history, status |-> "ok"]

\* record_spend called by the application
RecordSpend(amount, spent_token_ids, unspent_proofs) ==
    /\ \A i \in 1..Len(spent_token_ids) : spent_token_ids[i] <= Len(log)
    /\ \E failure \in RecordSpendFailures(spent_token_ids) :
         LET run == RecordSpendRun(NextId, amount, spent_token_ids, unspent_proofs,
                                  failure)
         IN  /\ Len(log) + Len(run.events) <= MaxLog
             /\ log' = log \o run.events
             /\ result' = Result("record_spend", run.status, 0, <<>>, 0)
    /\ UNCHANGED <<state, mints, spent, now, fresh, mint_infos, inflight, mint_wallets>>

\* the loop of select_proofs_for_amount: take proofs while short of the amount
RECURSIVE TakeWhileShort(_, _, _, _, _)
TakeWhileShort(sorted, amount, current_amount, selected, remaining) ==
    IF sorted = <<>>
    THEN [selected_proofs |-> selected, remaining_proofs |-> remaining,
          current_amount |-> current_amount]
    ELSE IF current_amount < amount
    THEN TakeWhileShort(Tail(sorted), amount, current_amount + Head(sorted).amount,
                        Append(selected, Head(sorted)), remaining)
    ELSE TakeWhileShort(Tail(sorted), amount, current_amount, selected,
                        Append(remaining, Head(sorted)))

\* state.proof_to_event_id.get(&proof.keyset_id.to_string()): the map is keyed
\* by the text of proof.c, the lookup is made with the text of the keyset id
EventIdsByKeysetId(st, selected) ==
    {st.proof_to_event_id[k] :
        k \in {c \in DOMAIN st.proof_to_event_id :
                 \E p \in Range(selected) : ToString(c) = p.keyset_id}}

\* select_proofs_for_amount on the state its fetch returned
SelectProofsForAmount(st, amount) ==
    LET pass == TakeWhileShort(SortProofsDesc(st.proofs), amount, 0, <<>>, <<>>)
    IN  IF pass.current_amount < amount
        THEN Selection("insufficient_balance", <<>>, <<>>, {})
        ELSE Selection("ok", pass.selected_proofs, pass.remaining_proofs,
                       EventIdsByKeysetId(st, pass.selected_proofs))

\* the steps of send_to_pubkey before record_spend at which an Err can arise:
\* the fetch, building the token string from the keyset id taken as mint URL,
\* the signer and the encryption, the publish of the direct message
SendToPubkeyFailPoints == {"none", "fetch", "token_string", "encrypt", "dm"}

\* send_to_pubkey(recipient_pubkey, amount, memo); send_to_self is the same
\* call with the wallet's own public key
SendToPubkey(amount) ==
    /\ \E d \in Deliveries(Fetchable(log)), fail \in SendToPubkeyFailPoints :
         LET st == Reconstruct(d)
             sel == SelectProofsForAmount(st, amount)
             ids == sel.spent_event_ids
             early(status) ==
                 /\ log' = log
                 /\ result' = Result("send_to_pubkey", status, 0, <<>>, 0)
         IN  IF fail = "fetch" THEN early("fetch_failed")
             ELSE IF sel.status # "ok" THEN early(sel.status)
             ELSE IF sel.send_proofs = <<>> THEN early("insufficient_balance")
             ELSE IF fail = "token_string" THEN early("invalid_mint_url")
             ELSE IF fail = "encrypt" THEN early("encrypt_failed")
             ELSE IF fail = "dm" THEN early("dm_failed")
             ELSE \E id_order \in IdOrders(ids) :
                    \E failure \in RecordSpendFailures(id_order) :
                      LET dm == <<DmEv(NextId, now, sel.send_proofs)>>
                          run == RecordSpendRun(NextId + 1, amount, id_order,
                                                sel.all_consumed_proofs, failure)
                      IN  /\ Len(log) + 1 + Len(run.events) <= MaxLog
                          /\ log' = log \o dm \o run.events
                          /\ result' = Result("send_to_pubkey", run.status, 0,
                                              sel.send_proofs, 0)
    /\ UNCHANGED <<state, mints, spent, now, fresh, mint_infos, inflight, mint_wallets>>

InitSpend ==
    /\ log = <<>>
    /\ state = EmptyState
    /\ result = Result("none", "ok", 0, <<>>, 0)
    /\ mints = <<"mintA", "mintB">>
    /\ spent = {}
    /\ now = 1
    /\ fresh = 0
    /\ mint_infos = [m \in HeldMints |-> <<KeysetInfo("ks1", "sat", TRUE)>>]
    /\ inflight = <<>>
    /\ mint_wallets = <<>>

\* the wallet spends with send_with_target_mint
NextSelect ==
    \/ HoldToken
    \/ \E amount \in SpendAmounts, target_mint \in SpendTargets :
          SendWithTargetMint(amount, target_mint)

SpecSelect == InitSpend /\ [][NextSelect]_vars

\* the relays hold one TOKEN event of the wallet when it starts
InitHeld ==
    /\ \E ps \in HeldLists : log = <<TokenEv(1, 1, "ok", "mintA", ps, {})>>
    /\ state = EmptyState
    /\ result = Result("none", "ok", 0, <<>>, 0)
    /\ mints = <<"mintA", "mintB">>
    /\ spent = {}
    /\ now = 1
    /\ fresh = 0
    /\ mint_infos = [m \in HeldMints |-> <<KeysetInfo("ks1", "sat", TRUE)>>]
    /\ inflight = <<>>
    /\ mint_wallets = <<>>

\* the wallet spends with send_to_pubkey, the application with record_spend
NextSpend ==
    \/ \E amount \in SpendAmounts : SendToPubkey(amount)
    \/ \E amount \in RecordAmounts, ids \in SpentIdChoices, ps \in UnspentChoices :
          RecordSpend(amount, ids, ps)

SpecSpend == InitHeld /\ [][NextSpend]_vars

----------------------------------------------------------------------------
(* Claims about the events of redeem and of the spends *)

\* events an operation has added to the relays in a step
Published(before, after) == SubSeq(after, Len(before) + 1, Len(after))

\* C12: redeem and send_with_target_mint either return success having
\* published every event of the operation, or return an error having
\* published none
C12_AllOrNothing ==
    [][result'.op \in {"redeem", "send"} =>
          IF result'.status = "ok"
          THEN log' = log
               \/ \E h \in Range(Published(log, log')) :
                     /\ h.kind = "history"
                     /\ \A r \in Range(h.events) :
                           \/ r[2] = "created"
                              /\ \E e \in Range(Published(log, log')) :
                                    e.kind = "token" /\ e.id = r[1]
                           \/ r[2] = "destroyed"
                              /\ \E e \in Range(Published(log, log')) :
                                    e.kind = "deletion" /\ r[1] \in e.tags
          ELSE log' = log]_vars

\* C18: a successful redeem publishes one TokenEvent with the new proofs and
\* then one SpendingHistoryEntry with direction in that references it as
\* created; the returned amount, the entry's amount and the sum of the
\* persisted proofs are equal
C18_RedeemPersistsTokenThenHistory ==
    [][(result'.op = "redeem" /\ result'.status = "ok" /\ log' # log) =>
          LET new == Published(log, log')
          IN  /\ Len(new) = 2
              /\ new[1].kind = "token" /\ new[1].content = "ok" /\ new[1].del = {}
              /\ new[2].kind = "history" /\ new[2].direction = "in"
              /\ new[2].events = <<<<new[1].id, "created">>>>
              /\ result'.value = new[2].amount
              /\ result'.value = SumAmounts(new[1].proofs)
              /\ ProofIds(new[1].proofs) \cap spent' = {}]_vars

\* redeem of the 5-unit token has returned 5 and its two events close the log
C18_Witness ==
    /\ result.op = "redeem" /\ result.status = "ok" /\ result.value = 5
    /\ Len(log) >= 2
    /\ log[Len(log)].kind = "history" /\ log[Len(log)].direction = "in"
    /\ log[Len(log) - 1].kind = "token"
    /\ SumAmounts(log[Len(log) - 1].proofs) = 5

\* the mint a send draws on: the target, or the first configured mint
MintOf(target_mint) == IF target_mint # "none" THEN target_mint ELSE mints[1]

\* total of the proofs of a state that lie in TOKEN events of the mint
MintTotal(st, events, mint_url) ==
    SumAmounts(SelectSeq(st.proofs,
        LAMBDA p : \E e \in TokenEvents(events) :
                      e.mint = mint_url /\ e.id = st.proof_to_event_id[p.c]))

\* the states a fetch of the relays can return
FetchedStates(events) == {Reconstruct(d) : d \in Deliveries(Fetchable(events))}

\* amounts of a proof list, in order
Amounts(ps) == [i \in 1..Len(ps) |-> ps[i].amount]

\* C13: a send at a target mint whose proofs in the wallet add up to less than
\* the amount fails with an insufficient-balance error and publishes nothing;
\* the proofs of other mints do not count. (No step of such a send ends in
\* any other way, unless its fetch failed.)
C13_OtherMintsDoNotCount ==
    [][\A amount \in SpendAmounts, target_mint \in SpendTargets :
          (/\ result'.op = "send"
           /\ ~(/\ result'.status \in {"insufficient_balance",
                                       "insufficient_balance_in_mint"}
                /\ log' = log)
           /\ result'.status # "fetch_failed"
           /\ \A st \in FetchedStates(log) :
                 MintTotal(st, log, MintOf(target_mint)) < amount)
          => ~SendWithTargetMint(amount, target_mint)]_vars

\* what C14 says of every successful selection: the proofs handed out add up
\* to the amount, and no prefix of the descending pass exceeds it
ExactNoOvershoot(amount, selected) ==
    /\ SumAmounts(selected) = amount
    /\ \A k \in 1..Len(selected) : SumAmounts(SubSeq(selected, 1, k)) <= amount
    /\ \A k \in 1..(Len(selected) - 1) : selected[k].amount >= selected[k + 1].amount

\* C14 as stated: every successful selection is exact with no overshoot, and
\* amount 13 over the proofs {8, 4, 2, 1} selects all four
C14_ExactSelectionAllFour ==
    [][\A amount \in SpendAmounts, target_mint \in SpendTargets :
          (/\ result'.op = "send" /\ result'.status = "ok" /\ log' # log
           /\ SendWithTargetMint(amount, target_mint))
          => /\ ExactNoOvershoot(amount, result'.token)
             /\ (amount = 13 /\ state'.proofs = <<Q8, Q4, Q2, Q1>>)
                => Amounts(result'.token) = <<8, 4, 2, 1>>]_vars

\* C14 amended: every successful selection is exact with no overshoot, and
\* amount 13 over the proofs {8, 4, 2, 1} selects 8, 4 and 1
C14_ExactSelection ==
    [][\A amount \in SpendAmounts, target_mint \in SpendTargets :
          (/\ result'.op = "send" /\ result'.status = "ok" /\ log' # log
           /\ SendWithTargetMint(amount, target_mint))
          => /\ ExactNoOvershoot(amount, result'.token)
             /\ (amount = 13 /\ state'.proofs = <<Q8, Q4, Q2, Q1>>)
                => Amounts(result'.token) = <<8, 4, 1>>]_vars

\* a send of 13 from the proofs {8, 4, 2, 1} has handed out 8, 4 and 1
C14_Witness ==
    /\ SendOk
    /\ state.proofs = <<Q8, Q4, Q2, Q1>>
    /\ Amounts(result.token) = <<8, 4, 1>>

\* the descending pass over the proofs, skipping every proof larger than what
\* is still missing, ends with something missing
GreedyFallsShort(ps, amount) ==
    GreedyPass(SortProofsDesc(ps), amount, <<>>).remaining > 0

\* C15: when the wallet holds at least the amount but the descending pass ends
\* with a positive remainder, the send fails with the exact-combination error
\* and publishes no event. (No step of such a send ends in any other way,
\* unless its fetch failed.)
C15_NoExactCombination ==
    [][\A amount \in SpendAmounts, target_mint \in SpendTargets :
          (/\ result'.op = "send"
           /\ ~(result'.status = "no_exact_combination" /\ log' = log)
           /\ result'.status # "fetch_failed"
           /\ \A st \in FetchedStates(log) :
                 st.balance >= amount /\ GreedyFallsShort(st.proofs, amount))
          => ~SendWithTargetMint(amount, target_mint)]_vars

\* a send from the proofs {2, 2} has failed for want of an exact combination
C15_Witness ==
    /\ result.op = "send" /\ result.status = "no_exact_combination"
    /\ state.proofs = <<R2a, R2b>>
    /\ \A e \in Range(log) : e.kind = "token"

\* a send of any kind has returned success
AnySendOk == result.op \in {"send", "send_to_pubkey"} /\ result.status = "ok"

\* C16: after a successful send every TOKEN event that held a proof of the
\* outgoing token is deleted or superseded, and no proof of the outgoing token
\* is in the reconstructed state
C16_SpentOriginalsGone ==
    AnySendOk =>
        /\ \A e \in ReadableTokens(log) :
              ProofIds(e.proofs) \cap ProofIds(result.token) # {}
              => Deleted(log, e.id) \/ Superseded(log, e.id)
        /\ \A st \in FetchedStates(log) :
              ProofIds(st.proofs) \cap ProofIds(result.token) = {}

C20_RolloverBeforeDeletions ==
    [][LET new == Published(log, log')
       IN  /\ \A i, j \in 1..Len(new) :
                 (new[i].kind = "token" /\ new[j].kind = "deletion") => i < j
           /\ \A amount \in RecordAmounts, ids \in SpentIdChoices,
                 ps \in UnspentChoices :
                 (/\ result'.op = "record_spend"
                  /\ ps # <<>>
                  /\ RecordSpend(amount, ids, ps))
                 => /\ (~\E i \in 1..Len(new) : new[i].kind = "token")
                       => ~\E j \in 1..Len(new) : new[j].kind = "deletion"
                    /\ result'.status = "ok"
                       => \E i \in 1..Len(new) : new[i].kind = "token"]_vars

\* record_spend has published a rollover TokenEvent and then the deletion of
\* the event it replaces
C20_Witness ==
    /\ result.op = "record_spend" /\ result.status = "ok"
    /\ \E i, j \in 1..Len(log) :
          /\ i < j
          /\ log[i].kind = "token" /\ log[i].del # {}
          /\ log[j].kind = "deletion" /\ log[j].tags \subseteq log[i].del

----------------------------------------------------------------------------
(* Wallet instances redeeming concurrently: redeem step by step, one await at
   a time, against the same mint and relays *)

Wallets == {"w1", "w2"}

\* keysets a mint may have reported to initialize_mint_infos (none when the
\* request failed and the basic MintInfo was stored)
MintInfoChoices ==
    {[m \in {"mintA"} |-> ks] :
        ks \in {<<KeysetInfo("ks1", "sat", TRUE)>>,
                <<KeysetInfo("ks1", "sat", FALSE)>>,
                <<KeysetInfo("ks0", "sat", FALSE), KeysetInfo("ks9", "usd", TRUE)>>,
                <<>>}}

\* the unit of a token string; the tokens of the model are sat tokens
TokenUnit(token) == "sat"

\* mint_unit: the first active keyset's unit, else the first keyset's, else sat;
\* the token's own unit when the mint has no MintInfo
MintUnit(mint_url, token) ==
    IF mint_url \in DOMAIN mint_infos
    THEN LET keysets == mint_infos[mint_url]
             active == {i \in 1..Len(keysets) : keysets[i].active}
         IN  IF active # {}
             THEN keysets[CHOOSE i \in active : \A j \in active : i <= j].unit
             ELSE IF keysets # <<>> THEN keysets[1].unit
             ELSE "sat"
    ELSE TokenUnit(token)

\* a redeem call: where it stands, what it holds, what it has returned
Call(p, tok, u, st, calls, v, evs, fin) ==
    [pc |-> p, token |-> tok, unit |-> u, status |-> st, mint_calls |-> calls,
     value |-> v, events |-> evs, final |-> fin]

Idle == Call("idle", Garbage, "", "none", 0, 0, <<>>, <<>>)

Returned(call, st) == [call EXCEPT !.pc = "done", !.status = st]

\* redeem up to the first await: parse, the trusted-mint test, the unit
RedeemParse(w, token) ==
    /\ inflight[w].pc = "idle"
    /\ inflight' = [inflight EXCEPT ![w] =
          IF ~token.parses THEN Returned(Call("idle", token, "", "none", 0, 0, <<>>, <<>>),
                                         "parse_failed")
          ELSE IF ~IsTrustedMint(token.mint)
          THEN Returned(Call("idle", token, "", "none", 0, 0, <<>>, <<>>),
                        "untrusted_mint")
          ELSE Call("temp_wallet", token, MintUnit(token.mint, token), "none",
                    0, 0, <<>>, <<>>)]
    /\ UNCHANGED <<log, state, result, mints, spent, now, fresh, mint_infos, mint_wallets>>

\* CashuWalletClient::from_seed_with_unit
RedeemTempWallet(w) ==
    /\ inflight[w].pc = "temp_wallet"
    /\ \E ok \in BOOLEAN :
         inflight' = [inflight EXCEPT ![w] =
            IF ok THEN [@ EXCEPT !.pc = "receive"]
            ELSE Returned(@, "temp_wallet_failed")]
    /\ UNCHANGED <<log, state, result, mints, spent, now, fresh, mint_infos, mint_wallets>>

\* mutant: the Err of temp_wallet.receive is dropped and redeem goes on
AfterReceive_ErrIgnored(accepted) == "send"

\* `.map_err(..)?` on temp_wallet.receive: go on only when the swap was accepted
AfterReceive(accepted) == IF accepted THEN "send" ELSE "done"

\* temp_wallet.receive: the mint swaps the token's proofs in one request,
\* refusing when one of them is already spent
RedeemReceive(w) ==
    /\ inflight[w].pc = "receive"
    /\ \E reachable \in BOOLEAN :
         LET call == inflight[w]
             accepted == reachable /\ ProofIds(call.token.proofs) \cap spent = {}
             calls == IF reachable THEN 1 ELSE 0
         IN  /\ spent' = IF accepted THEN spent \cup ProofIds(call.token.proofs)
                         ELSE spent
             /\ inflight' = [inflight EXCEPT ![w] =
                   IF AfterReceive(accepted) = "send"
                   THEN [@ EXCEPT !.pc = "send", !.mint_calls = calls,
                                  !.value = SumAmounts(call.token.proofs)]
                   ELSE Returned([@ EXCEPT !.mint_calls = calls], "redeem_failed")]
    /\ UNCHANGED <<log, state, result, mints, now, fresh, mint_infos, mint_wallets>>

\* temp_wallet.balance, temp_wallet.send and the proofs of new_token_string
RedeemSend(w) ==
    /\ inflight[w].pc = "send"
    /\ \E ok \in BOOLEAN :
         LET call == inflight[w]
             final_proofs == FinalProofs(call.value, call.token.proofs[1].keyset_id)
         IN  /\ fresh' = IF ok THEN fresh + Len(final_proofs) ELSE fresh
             /\ inflight' = [inflight EXCEPT ![w] =
                   IF ok THEN [@ EXCEPT !.pc = "publish_token", !.mint_calls = 2,
                                        !.final = final_proofs]
                   ELSE Returned(@, "send_failed")]
    /\ UNCHANGED <<log, state, result, mints, spent, now, mint_infos, mint_wallets>>

\* create_token_event(&mint_url, final_proofs, vec![])
RedeemPublishToken(w) ==
    /\ inflight[w].pc = "publish_token"
    /\ \E ok \in BOOLEAN :
         LET call == inflight[w]
         IN  /\ log' = IF ok
                       THEN Append(log, TokenEv(NextId, now, "ok", call.token.mint,
                                                call.final, {}))
                       ELSE log
             /\ inflight' = [inflight EXCEPT ![w] =
                   IF ok THEN [@ EXCEPT !.pc = "publish_history",
                                        !.events = <<NextId>>]
                   ELSE Returned(@, "publish_token_failed")]
    /\ UNCHANGED <<state, result, mints, spent, now, fresh, mint_infos, mint_wallets>>

\* create_spending_history("in", redeemed_amount, event_refs) and Ok(redeemed_amount)
RedeemPublishHistory(w) ==
    /\ inflight[w].pc = "publish_history"
    /\ \E ok \in BOOLEAN :
         LET call == inflight[w]
         IN  /\ log' = IF ok
                       THEN Append(log, HistoryEv(NextId, now, "in", call.value,
                                                  <<<<call.events[1], "created">>>>))
                       ELSE log
             /\ inflight' = [inflight EXCEPT ![w] =
                   IF ok THEN Returned([@ EXCEPT !.events = Append(@, NextId)], "ok")
                   ELSE Returned(@, "publish_history_failed")]
    /\ UNCHANGED <<state, result, mints, spent, now, fresh, mint_infos, mint_wallets>>

InitRace ==
    /\ log = <<>>
    /\ state = EmptyState
    /\ result = Result("none", "ok", 0, <<>>, 0)
    /\ mints = <<"mintA">>
    /\ spent = {}
    /\ now = 1
    /\ fresh = 0
    /\ mint_infos \in MintInfoChoices
    /\ inflight = [w \in Wallets |-> Idle]
    /\ mint_wallets = <<>>

NextRace ==
    \/ \E w \in Wallets, token \in TokenStrings : RedeemParse(w, token)
    \/ \E w \in Wallets : RedeemTempWallet(w)
    \/ \E w \in Wallets : RedeemReceive(w)
    \/ \E w \in Wallets : RedeemSend(w)
    \/ \E w \in Wallets : RedeemPublishToken(w)
    \/ \E w \in Wallets : RedeemPublishHistory(w)

SpecRace == InitRace /\ [][NextRace]_vars

----------------------------------------------------------------------------
(* Claims about concurrent redeems and the keyset test *)

\* the mint has accepted the swap of this call's token
SwapWon(call) ==
    \/ call.pc \in {"send", "publish_token", "publish_history"}
    \/ call.pc = "done" /\ call.status \in {"send_failed", "publish_token_failed",
                                            "publish_history_failed", "ok"}

\* token events on the relays that this call published
PublishedTokens(call) ==
    {e \in TokenEvents(log) : \E i \in 1..Len(call.events) : call.events[i] = e.id}

\* C11: of two wallets redeeming the same token string, the mint's swap
\* succeeds for at most one, at most one returns success and publishes a
\* TokenEvent, and once one has succeeded the other fails and has persisted
\* nothing
C11_AtMostOneRedeemWins ==
    \A w1, w2 \in DOMAIN inflight :
        (/\ w1 # w2
         /\ inflight[w1].pc # "idle" /\ inflight[w2].pc # "idle"
         /\ inflight[w1].token = inflight[w2].token
         /\ inflight[w1].token.parses)
        => /\ ~(SwapWon(inflight[w1]) /\ SwapWon(inflight[w2]))
           /\ ~(inflight[w1].status = "ok" /\ inflight[w2].status = "ok")
           /\ ~(PublishedTokens(inflight[w1]) # {} /\ PublishedTokens(inflight[w2]) # {})
           /\ (inflight[w1].status = "ok" /\ inflight[w2].pc = "done")
              => /\ inflight[w2].status # "ok"
                 /\ inflight[w2].events = <<>>
                 /\ \A e \in TokenEvents(log) : e \in PublishedTokens(inflight[w1])

\* both wallets took the same trusted token to the mint; one has returned
\* success with its TokenEvent on the relays, the other was refused by the mint
C11_Witness ==
    /\ DOMAIN inflight = Wallets
    /\ inflight["w1"].token = TokenA /\ inflight["w2"].token = TokenA
    /\ inflight["w1"].pc = "done" /\ inflight["w1"].status = "ok"
    /\ PublishedTokens(inflight["w1"]) # {}
    /\ inflight["w2"].pc = "done" /\ inflight["w2"].status = "redeem_failed"
    /\ inflight["w2"].mint_calls = 1

\* the mint's MintInfo lists no active keyset of the unit
NoActiveKeyset(mint_url, unit) ==
    /\ mint_url \in DOMAIN mint_infos
    /\ ~\E k \in Range(mint_infos[mint_url]) : k.active /\ k.unit = unit

\* C19: a redeem of a token of a trusted mint without an active keyset for the
\* token's unit returns the no-active-keyset error, has made no request to the
\* mint and has published nothing
C19_NoActiveKeysetRejected ==
    \A w \in DOMAIN inflight :
        (/\ inflight[w].pc # "idle"
         /\ inflight[w].token.parses
         /\ inflight[w].token.mint \in Range(mints)
         /\ NoActiveKeyset(inflight[w].token.mint, TokenUnit(inflight[w].token)))
        => /\ inflight[w].pc = "done"
           /\ inflight[w].status = "no_active_keyset"
           /\ inflight[w].mint_calls = 0
           /\ inflight[w].events = <<>>

----------------------------------------------------------------------------
(* Wallet instances sending concurrently: send_with_target_mint step by step,
   one await at a time, two instances of the same key on the same relays *)

\* a send call: where it stands, what it selected, the spent event ids still
\* to delete, what it has returned
SendCall(p, amt, st, send, rest, ids, todo) ==
    [pc |-> p, amount |-> amt, status |-> st, token |-> send,
     remaining_proofs |-> rest, spent_event_ids |-> ids, todo |-> todo]

SendIdle == SendCall("idle", 0, "none", <<>>, <<>>, {}, <<>>)

\* the first await: fetch_wallet_state and the balance test
SendFetch(w, amount) ==
    /\ inflight[w].pc = "idle"
    /\ \E d1 \in Deliveries(Fetchable(log)), ok \in BOOLEAN :
         LET st1 == Reconstruct(d1)
             call == SendCall("select", amount, "none", <<>>, <<>>, {}, <<>>)
         IN  inflight' = [inflight EXCEPT ![w] =
                IF ~ok THEN Returned(call, "fetch_failed")
                ELSE IF st1.balance < amount
                THEN Returned(call, "insufficient_balance")
                ELSE call]
    /\ UNCHANGED <<log, state, result, mints, spent, now, fresh, mint_infos, mint_wallets>>

\* select_proofs_for_exact_amount with its own fetch, then the token string and
\* the remaining proofs
SendSelect(w) ==
    /\ inflight[w].pc = "select"
    /\ \E d2 \in Deliveries(Fetchable(log)), ok \in BOOLEAN :
         LET mint_url == IF mints # <<>> THEN mints[1] ELSE ""
             sel == SelectProofsForExactAmount(Reconstruct(d2),
                                               inflight[w].amount, mint_url)
             rest == RemainingProofs(sel.all_consumed_proofs, sel.send_proofs)
         IN  \E id_order \in IdOrders(sel.spent_event_ids) :
                inflight' = [inflight EXCEPT ![w] =
                   IF ~ok THEN Returned(@, "fetch_failed")
                   ELSE IF sel.status # "ok" THEN Returned(@, sel.status)
                   ELSE IF sel.send_proofs = <<>>
                   THEN Returned(@, "no_proofs_provided")
                   ELSE IF mint_url = "" THEN Returned(@, "invalid_mint_url")
                   ELSE SendCall("history", @.amount, "none", sel.send_proofs,
                                 rest, sel.spent_event_ids, id_order)]
    /\ UNCHANGED <<log, state, result, mints, spent, now, fresh, mint_infos, mint_wallets>>

\* create_rollover_token_event when proofs remain, then create_spending_history
SendPublishHistory(w) ==
    /\ inflight[w].pc = "history"
    /\ \E fail \in {"none", "publish_rollover", "publish_history"} :
         LET call == inflight[w]
             rollover == IF call.remaining_proofs # <<>>
                         THEN <<TokenEv(NextId, now, "ok", mints[1],
                                        call.remaining_proofs,
                                        call.spent_event_ids)>>
                         ELSE <<>>
             refs == DestroyedRefs(call.todo)
                     \o (IF rollover # <<>> THEN <<<<NextId, "created">>>>
                         ELSE <<>>)
             history == HistoryEv(NextId + Len(rollover), now, "out",
                                  SumAmounts(call.token), refs)
         IN  IF rollover # <<>> /\ fail = "publish_rollover"
             THEN /\ log' = log
                  /\ inflight' = [inflight EXCEPT ![w] = Returned(@, "publish_failed")]
             ELSE IF fail # "none"
             THEN /\ log' = log \o rollover
                  /\ inflight' = [inflight EXCEPT ![w] = Returned(@, "publish_failed")]
             ELSE /\ log' = log \o rollover \o <<history>>
                  /\ inflight' = [inflight EXCEPT ![w] =
                        IF call.todo = <<>> THEN Returned(@, "ok")
                        ELSE [@ EXCEPT !.pc = "delete"]]
    /\ UNCHANGED <<state, result, mints, spent, now, fresh, mint_infos, mint_wallets>>

\* mutant: the relays refuse the deletion of an event that is deleted already
DeleteOutcome_RejectsDeleted(events, token_id, sent) ==
    IF ~sent THEN "publish_failed"
    ELSE IF Deleted(events, token_id) THEN "already_deleted"
    ELSE "published"

\* delete_token_event: the deletion is built from the id alone and sent
DeleteOutcome(events, token_id, sent) ==
    IF sent THEN "published" ELSE "publish_failed"

\* one turn of the deletion loop, and Ok(token_string) after the last one
SendDelete(w) ==
    /\ inflight[w].pc = "delete"
    /\ \E sent \in BOOLEAN :
         LET call == inflight[w]
             token_id == Head(call.todo)
             outcome == DeleteOutcome(log, token_id, sent)
         IN  IF outcome # "published"
             THEN /\ log' = log
                  /\ inflight' = [inflight EXCEPT ![w] = Returned(@, outcome)]
             ELSE /\ log' = Append(log, DeletionEv(NextId, now, {token_id}))
                  /\ inflight' = [inflight EXCEPT ![w] =
                        IF Tail(call.todo) = <<>>
                        THEN Returned([@ EXCEPT !.todo = <<>>], "ok")
                        ELSE [@ EXCEPT !.todo = Tail(call.todo)]]
    /\ UNCHANGED <<state, result, mints, spent, now, fresh, mint_infos, mint_wallets>>

\* two instances of the wallet and one TOKEN event of its mint on the relays
InitSendRace ==
    /\ \E ps \in HeldLists : log = <<TokenEv(1, 1, "ok", "mintA", ps, {})>>
    /\ state = EmptyState
    /\ result = Result("none", "ok", 0, <<>>, 0)
    /\ mints = <<"mintA">>
    /\ spent = {}
    /\ now = 1
    /\ fresh = 0
    /\ mint_infos = [m \in {"mintA"} |-> <<KeysetInfo("ks1", "sat", TRUE)>>]
    /\ inflight = [w \in Wallets |-> SendIdle]
    /\ mint_wallets = <<>>

SendAmounts == {1, 3, 13}

NextSendRace ==
    \/ \E w \in Wallets, amount \in SendAmounts : SendFetch(w, amount)
    \/ \E w \in Wallets : SendSelect(w)
    \/ \E w \in Wallets : SendPublishHistory(w)
    \/ \E w \in Wallets : SendDelete(w)

SpecSendRace == InitSendRace /\ [][NextSendRace]_vars

----------------------------------------------------------------------------
(* Claims about concurrent sends *)

\* the call of w has returned Ok with a token
SentOk(w) == inflight[w].pc = "done" /\ inflight[w].status = "ok"

\* C21: the event log does not exclude two instances of the wallet from one
\* another. A send that has made its selection reads the log no more: it
\* returns the token it selected unless one of its own publications fails,
\* whatever the other instance has published in between, the deletion of the
\* very events it selected from included. (The witness is the interleaving of
\* the claim: both instances have returned a token and the tokens share a
\* proof.)
C21_SelectedSendIsNotExcluded ==
    [][\A w \in Wallets :
          (/\ inflight[w].pc \in {"history", "delete"}
           /\ inflight'[w].pc = "done"
           /\ inflight'[w].status # "publish_failed")
          => /\ inflight'[w].status = "ok"
             /\ inflight'[w].token = inflight[w].token]_vars

C21_Witness ==
    /\ SentOk("w1") /\ SentOk("w2")
    /\ \E p \in Range(inflight["w1"].token) : p \in Range(inflight["w2"].token)
    /\ \E e \in Range(log) :
          e.kind = "token" /\ Cardinality({d \in Range(log) :
                                 d.kind = "deletion" /\ e.id \in d.tags}) = 2

----------------------------------------------------------------------------
(* MultimintWallet: balances aggregated over the wallets of several mints *)

MintUrls == {"mintA", "mintB"}

\* units a CashuWalletClient is built with (from_seed: Msat; from_seed_with_unit)
WalletUnits == {"msat", "sat"}

\* what wallet.balance() can report, in the wallet's own unit
Balances == {0, 3, 5000}

\* MintWalletInfo with the CDK wallet it points to: unit is the label the
\* MultimintWallet keeps, wallet_unit and balance belong to the CDK wallet
MintWalletInfo(unit, wallet_unit, balance, active) ==
    [unit |-> unit, wallet_unit |-> wallet_unit, balance |-> balance,
     active |-> active]

DetectMintUnit(mint_url) == "msat"

MultimintResult(o, st, total, by_mint) ==
    [op |-> o, status |-> st, value |-> total, token |-> <<>>, mint_calls |-> 0,
     balances_by_mint |-> by_mint]

\* MultimintWallet::new, or from_existing_wallet on a wallet of either unit
InitMultimint ==
    /\ log = <<>>
    /\ state = EmptyState
    /\ result = Result("none", "ok", 0, <<>>, 0)
    /\ mints = <<>>
    /\ spent = {}
    /\ now = 1
    /\ fresh = 0
    /\ mint_infos = <<>>
    /\ inflight = <<>>
    /\ \/ mint_wallets = <<>>
       \/ \E mint_url \in MintUrls, wallet_unit \in WalletUnits, b \in Balances :
            mint_wallets = (mint_url :> MintWalletInfo(DetectMintUnit(mint_url),
                                                      wallet_unit, b, TRUE))

\* add_mint: a new Msat wallet from the seed
AddMint(mint_url) ==
    /\ \E built \in BOOLEAN :
         IF mint_url \in DOMAIN mint_wallets
         THEN /\ mint_wallets' = mint_wallets
              /\ result' = MultimintResult("add_mint", "mint_already_exists", 0, <<>>)
         ELSE IF ~built      \* CashuWalletClient::from_seed(..)? returned an Err
         THEN /\ mint_wallets' = mint_wallets
              /\ result' = MultimintResult("add_mint", "wallet_failed", 0, <<>>)
         ELSE /\ mint_wallets' = mint_wallets
                                 @@ (mint_url :> MintWalletInfo("msat", "msat", 0, TRUE))
              /\ result' = MultimintResult("add_mint", "ok", 0, <<>>)
    /\ UNCHANGED <<log, state, mints, spent, now, fresh, mint_infos, inflight>>

\* set_mint_active
SetMintActive(mint_url, active) ==
    /\ IF mint_url \notin DOMAIN mint_wallets
       THEN /\ mint_wallets' = mint_wallets
            /\ result' = MultimintResult("set_mint_active", "mint_not_found", 0, <<>>)
       ELSE /\ mint_wallets' = [mint_wallets EXCEPT ![mint_url].active = active]
            /\ result' = MultimintResult("set_mint_active", "ok", 0, <<>>)
    /\ UNCHANGED <<log, state, mints, spent, now, fresh, mint_infos, inflight>>

\* the CDK wallet of a mint receives or spends: its balance changes
WalletBalanceChanges(mint_url, b) ==
    /\ mint_url \in DOMAIN mint_wallets
    /\ mint_wallets[mint_url].balance # b
    /\ mint_wallets' = [mint_wallets EXCEPT ![mint_url].balance = b]
    /\ result' = MultimintResult("wallet", "ok", 0, <<>>)
    /\ UNCHANGED <<log, state, mints, spent, now, fresh, mint_infos, inflight>>

\* normalize_to_sats
NormalizeToSats(amount, unit) ==
    IF unit = "msat" THEN amount \div 1000
    ELSE IF unit = "sat" THEN amount
    ELSE amount

\* the loop of get_total_balance over the entries of mint_wallets: what it adds
\* to total_balance for the entries that are alike, kind by kind of entry
RECURSIVE TotalOfInfos(_, _, _)
TotalOfInfos(wallets, urls, infos) ==
    IF infos = {} THEN 0
    ELSE LET mint_info == CHOOSE i \in infos : TRUE
             count == Cardinality({u \in urls : wallets[u] = mint_info})
             rest == TotalOfInfos(wallets, urls, infos \ {mint_info})
         IN  IF ~mint_info.active THEN rest
             ELSE NormalizeToSats(mint_info.balance, mint_info.unit) * count + rest

\* total_balance of get_total_balance
TotalBalance(wallets, urls) ==
    TotalOfInfos(wallets, urls, {wallets[u] : u \in urls})

\* get_total_balance; an Err of wallet.balance() or wallet.pending() of an
\* active mint ends it
GetTotalBalance ==
    /\ \E ok \in BOOLEAN :
         LET active == {u \in DOMAIN mint_wallets : mint_wallets[u].active}
         IN  result' =
               IF ~ok /\ active # {}
               THEN MultimintResult("get_total_balance", "wallet_failed", 0, <<>>)
               ELSE MultimintResult("get_total_balance", "ok",
                       TotalBalance(mint_wallets, DOMAIN mint_wallets),
                       [u \in active |->
                           [balance |-> mint_wallets[u].balance,
                            unit |-> mint_wallets[u].unit]])
    /\ UNCHANGED <<log, state, mints, spent, now, fresh, mint_infos, inflight,
                   mint_wallets>>

NextMultimint ==
    \/ \E mint_url \in MintUrls : AddMint(mint_url)
    \/ \E mint_url \in MintUrls, active \in BOOLEAN : SetMintActive(mint_url, active)
    \/ \E mint_url \in MintUrls, b \in Balances : WalletBalanceChanges(mint_url, b)
    \/ GetTotalBalance

SpecMultimint == InitMultimint /\ [][NextMultimint]_vars

----------------------------------------------------------------------------
(* Claims about the aggregated balance *)

\* a balance of a wallet of the given unit, in the base unit
InBaseUnit(balance, unit) == IF unit = "msat" THEN balance \div 1000 ELSE balance

RECURSIVE SumInBaseUnit(_, _)
SumInBaseUnit(wallets, urls) ==
    IF urls = {} THEN 0
    ELSE LET u == CHOOSE x \in urls : TRUE
         IN  InBaseUnit(wallets[u].balance, wallets[u].wallet_unit)
             + SumInBaseUnit(wallets, urls \ {u})

TotalReturned == result.op = "get_total_balance" /\ result.status = "ok"

\* C22: get_total_balance returns, as total_balance, the sum over the mints of
\* the wallet of each mint's balance in the base unit: a balance in millis
\* divided by 1000 (integer division), a balance in the base unit as it is.
C22_TotalIsSumInBaseUnit ==
    TotalReturned
    => result.value = SumInBaseUnit(mint_wallets, DOMAIN mint_wallets)

----------------------------------------------------------------------------
(* The per-mint view of a WalletState: Nip60Wallet::get_proof_breakdown *)

S4 == Proof(4, "ks2", 21, 21)
S1 == Proof(1, "ks2", 22, 22)
U1 == Proof(1, "ks2", 23, 23)
T2 == Proof(2, "ks3", 31, 31)

\* TOKEN events of the wallet's key: the mint and the proofs of TokenData.
\* mintC is a mint the wallet's present mint list does not name
MintTokens ==
    {<<"mintA", <<Q8, Q1>>>>, <<"mintA", <<Q1>>>>,
     <<"mintB", <<S4, S1, U1>>>>, <<"mintB", <<S1>>>>,
     <<"mintC", <<T2>>>>}

\* mint_infos after initialize_mint_infos: the keysets a mint reported, or
\* none when MintInfo::from_url failed and the basic MintInfo was stored.
\* No keyset id is listed under two mints
BreakdownInfoChoices ==
    {[m \in {"mintA", "mintB"} |-> IF m = "mintA" THEN a ELSE b] :
        a \in {<<KeysetInfo("ks1", "sat", TRUE)>>, <<>>},
        b \in {<<KeysetInfo("ks2", "sat", TRUE)>>, <<>>}}

\* ProofBreakdown::new
ProofBreakdown(mint_url, unit) ==
    [mint_url |-> mint_url, unit |-> unit, total_balance |-> 0,
     proof_count |-> 0, denominations |-> <<>>]

\* ProofBreakdown::add_proof
BreakdownAddProof(entry, amount) ==
    [entry EXCEPT
        !.total_balance = @ + amount,
        !.proof_count = @ + 1,
        !.denominations =
            IF amount \in DOMAIN @ THEN [@ EXCEPT ![amount] = @ + 1]
            ELSE @ @@ (amount :> 1)]

\* get_mint_info_by_keyset_id: the url of a MintInfo listing the keyset, or none
MintInfoByKeysetId(infos, keyset_id) ==
    {m \in DOMAIN infos : \E i \in 1..Len(infos[m]) : infos[m][i].id = keyset_id}

\* the loop of get_proof_breakdown: the map url -> ProofBreakdown, or the
\* panic of unwrap() on a proof whose keyset no MintInfo lists
RECURSIVE Breakdowns(_, _, _)
Breakdowns(infos, proofs, breakdowns) ==
    IF proofs = <<>> THEN [status |-> "ok", breakdowns |-> breakdowns]
    ELSE LET proof == Head(proofs)
             found == MintInfoByKeysetId(infos, proof.keyset_id)
         IN  IF found = {} THEN [status |-> "panic", breakdowns |-> <<>>]
             ELSE LET url == CHOOSE m \in found : TRUE
                      entry == IF url \in DOMAIN breakdowns THEN breakdowns[url]
                               ELSE ProofBreakdown(url, infos[url][1].unit)
                  IN  Breakdowns(infos, Tail(proofs),
                         [m \in DOMAIN breakdowns \cup {url} |->
                             IF m = url THEN BreakdownAddProof(entry, proof.amount)
                             ELSE breakdowns[m]])

\* the Vec the values can be returned as: total_balance descending
SortedByTotal(breakdowns) ==
    LET urls == DOMAIN breakdowns
        n == Cardinality(urls)
    IN  {[i \in 1..n |-> breakdowns[f[i]]] :
            f \in {g \in [1..n -> urls] :
                     /\ \A i, j \in 1..n : i # j => g[i] # g[j]
                     /\ \A i, j \in 1..n :
                           i < j => breakdowns[g[i]].total_balance
                                    >= breakdowns[g[j]].total_balance}}

BreakdownResult(st, v) ==
    [op |-> "get_proof_breakdown", status |-> st, value |-> 0, token |-> <<>>,
     mint_calls |-> 0, breakdowns |-> v]

\* get_proof_breakdown(&state.proofs)
GetProofBreakdown ==
    /\ LET run == Breakdowns(mint_infos, state.proofs, <<>>)
       IN  IF run.status # "ok" THEN result' = BreakdownResult("panic", <<>>)
           ELSE \E v \in SortedByTotal(run.breakdowns) :
                   result' = BreakdownResult("ok", v)
    /\ UNCHANGED <<log, state, mints, spent, now, fresh, mint_infos, inflight,
                   mint_wallets>>

\* a TOKEN event of the wallet's key is on the relays
RelayMintToken ==
    /\ Len(log) < MaxHeld
    /\ \E tok \in MintTokens :
         log' = Append(log, TokenEv(NextId, now, "ok", tok[1], tok[2], {}))
    /\ state' = EmptyState
    /\ result' = Result("publish", "ok", 0, <<>>, 0)
    /\ UNCHANGED <<mints, spent, now, fresh, mint_infos, inflight, mint_wallets>>

InitBreakdown ==
    /\ log = <<>>
    /\ state = EmptyState
    /\ result = Result("none", "ok", 0, <<>>, 0)
    /\ mints = <<"mintA", "mintB">>
    /\ spent = {}
    /\ now = 1
    /\ fresh = 0
    /\ mint_infos \in BreakdownInfoChoices
    /\ inflight = <<>>
    /\ mint_wallets = <<>>

NextBreakdown ==
    \/ RelayMintToken
    \/ FetchWalletState
    \/ GetProofBreakdown

SpecBreakdown == InitBreakdown /\ [][NextBreakdown]_vars

----------------------------------------------------------------------------
(* Claims about the per-mint view *)

\* the mint of the TOKEN event a proof of the state was read from
IssuingMint(st, events, p) ==
    LET e == CHOOSE x \in Range(events) : x.id = st.proof_to_event_id[ProofId(p)]
    IN  e.mint

ProofsOfMint(st, events, m) ==
    SelectSeq(st.proofs, LAMBDA p : IssuingMint(st, events, p) = m)

\* the entry describes exactly the proofs ps
Describes(entry, ps) ==
    /\ entry.total_balance = SumAmounts(ps)
    /\ entry.proof_count = Len(ps)
    /\ DOMAIN entry.denominations = Range(Amounts(ps))
    /\ \A d \in Range(Amounts(ps)) :
          entry.denominations[d] = Cardinality({i \in 1..Len(ps) : ps[i].amount = d})

RECURSIVE SumTotals(_)
SumTotals(v) ==
    IF v = <<>> THEN 0 ELSE Head(v).total_balance + SumTotals(Tail(v))

\* C23: get_proof_breakdown partitions the proofs of a WalletState by issuing
\* mint: one ProofBreakdown for every mint with at least one proof and none
\* for any other, each with the sum, the number and the per-denomination
\* counts of that mint's proofs, the totals adding up to the balance.
C23_BreakdownPartitionsByMint ==
    result.op = "get_proof_breakdown"
    => /\ result.status = "ok"
       /\ LET v == result.breakdowns
              with_proofs == {IssuingMint(state, log, p) : p \in Range(state.proofs)}
          IN  /\ {v[i].mint_url : i \in 1..Len(v)} = with_proofs
              /\ Len(v) = Cardinality(with_proofs)
              /\ \A i \in 1..Len(v) :
                    Describes(v[i], ProofsOfMint(state, log, v[i].mint_url))
              /\ SumTotals(v) = state.balance

----------------------------------------------------------------------------
(* Claims about the spending history *)

HistoryEvents(events) == {e \in Range(events) : e.kind = "history"}

----------------------------------------------------------------------------
(* The wallet configuration: Nip60Wallet::new, update_config, load_from_nostr *)

\* Vec<String> of mint urls handed to new and update_config
ConfigMintLists == {<<"mintA">>, <<"mintB">>, <<"mintA", "mintB">>}

\* a kinds::WALLET event; pairs is the decrypted content, the array of
\* ["mint", url] pairs written by publish_wallet_config
WalletEv(i, t, pairs) ==
    [id |-> i, kind |-> "wallet", created_at |-> t, content |-> "ok",
     pairs |-> pairs]

\* publish_wallet_config: the content built from self.mints
ConfigPairs(ms) == [i \in 1..Len(ms) |-> <<"mint", ms[i]>>]

\* load_from_nostr: the mints read from the array of pairs
RECURSIVE ConfigMints(_)
ConfigMints(pairs) ==
    IF pairs = <<>> THEN <<>>
    ELSE LET pair == Head(pairs)
         IN  (IF Len(pair) = 2 /\ pair[1] = "mint" THEN <<pair[2]>> ELSE <<>>)
             \o ConfigMints(Tail(pairs))

\* initialize_mint_infos: a MintInfo for every mint that has none yet, with the
\* keysets the mint reported, or without keysets when the request failed
InitializeMintInfos(infos, ms, reached) ==
    [m \in DOMAIN infos \cup Range(ms) |->
        IF m \in DOMAIN infos THEN infos[m]
        ELSE IF reached THEN <<KeysetInfo("ks1", "sat", TRUE)>>
        ELSE <<>>]

\* mutant: the filter is answered with the oldest WALLET event
FirstWalletEvent_Oldest(events) ==
    {e \in Range(events) :
        /\ e.kind = "wallet"
        /\ \A f \in Range(events) : f.kind = "wallet" => e.created_at <= f.created_at}

\* the events `events.first()` can be for the filter author, kind WALLET,
\* limit(1): the relays answer a limit with the newest matching events
FirstWalletEvent(events) ==
    {e \in Range(events) :
        /\ e.kind = "wallet"
        /\ \A f \in Range(events) : f.kind = "wallet" => f.created_at <= e.created_at}

\* Nip60Wallet::new: the configuration is published, then the mint infos are built
NewWallet(ms) ==
    /\ Len(log) < MaxEvents
    /\ \E published, reached \in BOOLEAN :
         IF ~published
         THEN /\ result' = Result("new", "publish_failed", 0, <<>>, 0)
              /\ UNCHANGED <<log, mints, mint_infos>>
         ELSE /\ log' = Append(log, WalletEv(NextId, now, ConfigPairs(ms)))
              /\ mints' = ms
              /\ mint_infos' = InitializeMintInfos(<<>>, ms, reached)
              /\ result' = Result("new", "ok", 0, <<>>, 0)
    /\ UNCHANGED <<state, spent, now, fresh, inflight, mint_wallets>>

\* update_config(Some(mints)) on the instance; update_config(None) does nothing
UpdateConfig(ms) ==
    /\ Len(log) < MaxEvents
    /\ mints # <<>>      \* an instance exists
    /\ \E published, reached \in BOOLEAN :
         /\ mints' = ms
         /\ mint_infos' = InitializeMintInfos(mint_infos, ms, reached)
         /\ IF published
            THEN /\ log' = Append(log, WalletEv(NextId, now, ConfigPairs(ms)))
                 /\ result' = Result("update_config", "ok", 0, <<>>, 0)
            ELSE /\ log' = log
                 /\ result' = Result("update_config", "publish_failed", 0, <<>>, 0)
    /\ UNCHANGED <<state, spent, now, fresh, inflight, mint_wallets>>

\* load_from_nostr: Ok(None) without a WALLET event, else the wallet built
\* from the first event of the fetch
LoadFromNostr ==
    /\ \E fetched, reached \in BOOLEAN :
         IF ~fetched
         THEN /\ result' = Result("load_from_nostr", "fetch_failed", 0, <<>>, 0)
              /\ UNCHANGED <<mints, mint_infos>>
         ELSE IF FirstWalletEvent(log) = {}
         THEN /\ result' = Result("load_from_nostr", "none", 0, <<>>, 0)
              /\ UNCHANGED <<mints, mint_infos>>
         ELSE \E wallet_event \in FirstWalletEvent(log) :
                 LET config_mints == ConfigMints(wallet_event.pairs)
                 IN  /\ mints' = config_mints
                     /\ mint_infos' = InitializeMintInfos(<<>>, config_mints, reached)
                     /\ result' = Result("load_from_nostr", "ok", 0, <<>>, 0)
    /\ UNCHANGED <<log, state, spent, now, fresh, inflight, mint_wallets>>

InitConfig ==
    /\ log = <<>>
    /\ state = EmptyState
    /\ result = Result("none", "ok", 0, <<>>, 0)
    /\ mints = <<>>
    /\ spent = {}
    /\ now = 1
    /\ fresh = 0
    /\ mint_infos = <<>>
    /\ inflight = <<>>
    /\ mint_wallets = <<>>

NextConfig ==
    \/ \E ms \in ConfigMintLists : NewWallet(ms)
    \/ \E ms \in ConfigMintLists : UpdateConfig(ms)
    \/ LoadFromNostr
    \/ Tick

SpecConfig == InitConfig /\ [][NextConfig]_vars

----------------------------------------------------------------------------
(* Claims about the wallet configuration *)

WalletEvents(events) == {e \in Range(events) : e.kind = "wallet"}

\* the mint urls a WALLET event lists, in its order
MintListOf(e) ==
    LET at == SelectSeq(e.pairs, LAMBDA pair : pair[1] = "mint")
    IN  [i \in 1..Len(at) |-> at[i][2]]

Loaded == result.op = "load_from_nostr" /\ result.status = "ok"

----------------------------------------------------------------------------
(* Denominations: calculate_optimal_denominations and
   create_blinded_messages_for_amount *)

\* the array denoms
Denoms == <<16384, 8192, 4096, 2048, 1024, 512, 256, 128, 64, 32, 16, 8, 4, 2, 1>>

\* a u64 amount written as (hi * 2^32 + lo) * 16384 + rem with lo < 2^32 and
\* rem < 16384, so that a quotient by 16384 that does not fit a u32 can be
\* told from one that does
U64(hi, lo, rem) == [hi |-> hi, lo |-> lo, rem |-> rem]

\* amounts handed to the functions: below 16384, some multiples of 16384
\* above, and amounts from 2^46 = 16384 * 2^32 on
DenominationAmounts ==
    {U64(hi, lo, rem) : hi \in {0, 1}, lo \in {0, 1, 2},
                        rem \in (0..24) \cup {16383}}

\* `count as u32` of the quotient hi * 2^32 + lo
AsU32(hi, lo) == lo

\* one turn of the loop over denoms. 16384 is the first denom; after it the
\* remaining amount is below 16384
DenominationStep(acc, denom) ==
    LET remaining == acc.remaining
    IN  IF denom = 16384
        THEN IF remaining.hi > 0 \/ remaining.lo > 0
             THEN [remaining |-> U64(0, 0, remaining.rem),
                   denominations |-> acc.denominations
                        @@ (denom :> AsU32(remaining.hi, remaining.lo))]
             ELSE acc
        ELSE IF remaining.rem >= denom
             THEN LET count == remaining.rem \div denom
                  IN  [remaining |-> U64(0, 0, remaining.rem - denom * count),
                       denominations |-> acc.denominations @@ (denom :> count)]
             ELSE acc

RECURSIVE DenominationLoop(_, _)
DenominationLoop(acc, denoms) ==
    IF denoms = <<>> THEN acc
    ELSE DenominationLoop(DenominationStep(acc, Head(denoms)), Tail(denoms))

\* calculate_optimal_denominations(amount): the map denom -> count
CalculateOptimalDenominations(amount) ==
    DenominationLoop([remaining |-> amount, denominations |-> <<>>],
                     Denoms).denominations

\* the amounts of the outputs pushed for a map: count per denom, here with the
\* denoms taken in descending order
RECURSIVE OutputAmounts(_, _)
OutputAmounts(denominations, denoms) ==
    IF denoms = <<>> THEN <<>>
    ELSE LET denom == Head(denoms)
             count == IF denom \in DOMAIN denominations
                      THEN denominations[denom] ELSE 0
         IN  [i \in 1..count |-> denom] \o OutputAmounts(denominations, Tail(denoms))

DenominationResult(o, st, amount, denominations, outputs) ==
    [op |-> o, status |-> st, value |-> 0, token |-> <<>>, mint_calls |-> 0,
     amount |-> amount, denominations |-> denominations, outputs |-> outputs]

CalculateDenominations(amount) ==
    /\ result' = DenominationResult("calculate_optimal_denominations", "ok", amount,
                                    CalculateOptimalDenominations(amount), <<>>)
    /\ UNCHANGED <<log, state, mints, spent, now, fresh, mint_infos, inflight,
                   mint_wallets>>

\* create_blinded_messages_for_amount(amount, keyset_id); an Err of
\* create_simple_blinded_message ends it
CreateBlindedMessagesForAmount(amount) ==
    /\ \E ok \in BOOLEAN :
         LET denominations == CalculateOptimalDenominations(amount)
             outputs == OutputAmounts(denominations, Denoms)
         IN  result' =
               IF ~ok /\ outputs # <<>>
               THEN DenominationResult("create_blinded_messages_for_amount",
                                       "blinding_failed", amount, denominations, <<>>)
               ELSE DenominationResult("create_blinded_messages_for_amount", "ok",
                                       amount, denominations, outputs)
    /\ UNCHANGED <<log, state, mints, spent, now, fresh, mint_infos, inflight,
                   mint_wallets>>

InitDenominations ==
    /\ log = <<>>
    /\ state = EmptyState
    /\ result = Result("none", "ok", 0, <<>>, 0)
    /\ mints = <<"mintA">>
    /\ spent = {}
    /\ now = 1
    /\ fresh = 0
    /\ mint_infos = ActiveSatInfos
    /\ inflight = <<>>
    /\ mint_wallets = <<>>

NextDenominations ==
    \/ \E amount \in DenominationAmounts : CalculateDenominations(amount)
    \/ \E amount \in DenominationAmounts : CreateBlindedMessagesForAmount(amount)

SpecDenominations == InitDenominations /\ [][NextDenominations]_vars

----------------------------------------------------------------------------
(* Claims about the denominations *)

IsPowerOfTwo(d) == \E k \in 0..14 : d = 2^k

\* values times counts of the denominations below 16384
SmallSum(denominations) ==
    LET below == SelectSeq(Denoms, LAMBDA d : d < 16384 /\ d \in DOMAIN denominations)
        values == [i \in 1..Len(below) |->
                      [amount |-> below[i] * denominations[below[i]]]]
    IN  SumAmounts(values)

CountOf(denominations, d) == IF d \in DOMAIN denominations THEN denominations[d] ELSE 0

\* C27: for every amount, calculate_optimal_denominations returns powers of
\* two whose values times counts add up to the amount exactly, and
\* create_blinded_messages_for_amount gives one output per element of that
\* multiset.
C27_DenominationsSumToAmount ==
    (result.op \in {"calculate_optimal_denominations",
                    "create_blinded_messages_for_amount"} /\ result.status = "ok")
    => LET d == result.denominations
           amount == result.amount
       IN  /\ \A x \in DOMAIN d : IsPowerOfTwo(x)
           \* 16384 * count + the rest = (hi * 2^32 + lo) * 16384 + rem
           /\ amount.hi = 0
           /\ CountOf(d, 16384) = amount.lo
           /\ SmallSum(d) = amount.rem
           /\ result.op = "create_blinded_messages_for_amount"
              => \A x \in Range(Denoms) :
                    Cardinality({i \in 1..Len(result.outputs) : result.outputs[i] = x})
                    = CountOf(d, x)

----------------------------------------------------------------------------
(* Claims about proof_to_event_id, supersession chains and the dedup identity *)

\* C28: in a returned WalletState every proof has its entry in
\* proof_to_event_id, and the entry is the id of a surviving TOKEN event that
\* contains the proof, than which no surviving TOKEN event containing the
\* proof has a greater created_at.
C28_ProofMappedToLatestSurvivingEvent ==
    Fetched =>
        \A p \in ProofSet(state) :
            /\ ProofId(p) \in DOMAIN state.proof_to_event_id
            /\ \E e \in ReadableTokens(log) :
                  /\ e.id = state.proof_to_event_id[ProofId(p)]
                  /\ p \in Range(e.proofs)
                  /\ Surviving(log, e)
                  /\ \A f \in ReadableTokens(log) :
                        (p \in Range(f.proofs) /\ Surviving(log, f))
                        => f.created_at <= e.created_at

----------------------------------------------------------------------------
(* Chains of TOKEN events: relays holding up to three TOKEN events of three
   different ages and no EventDeletion, one of them carrying a proof with the
   signature of P5 under another secret *)

MaxChainTime == 3

\* the same c as P5 under another secret
P5x == Proof(5, "ks1", 9, 1)

ChainLists == {<<P5>>, <<P5x>>, <<P8>>}

RelayChainToken ==
    /\ Len(log) < MaxEvents
    /\ \E t \in 1..MaxChainTime, ps \in ChainLists, d \in DelChoices(NextId) :
         log' = Append(log, TokenEv(NextId, t, "ok", "mintA", ps, d))
    /\ state' = EmptyState
    /\ result' = Result("publish", "ok", 0, <<>>, 0)
    /\ UNCHANGED <<mints, spent, now, fresh, mint_infos, inflight, mint_wallets>>

NextChain ==
    \/ RelayChainToken
    \/ FetchWalletState

SpecChain == InitLedger /\ [][NextChain]_vars

\* C29: with TOKEN events A, B and C, created_at A < B < C, B naming A and C
\* naming B in del, and no EventDeletion among the fetched events, the
\* returned state holds C's proofs and no others.
C29_ChainLeavesOnlyNewest ==
    Fetched =>
        \A a, b, c \in TokenEvents(log) :
            (/\ TokenEvents(log) = {a, b, c}
             /\ a.created_at < b.created_at /\ b.created_at < c.created_at
             /\ a.del = {} /\ b.del = {a.id} /\ c.del = {b.id}
             /\ \A d \in Range(log) : d.kind # "deletion")
            => /\ ProofSet(state) = Range(c.proofs)
               /\ state.balance = SumAmounts(c.proofs)

\* C30: two proofs are duplicates only when secret and signature are both
\* equal: every proof of a surviving TOKEN event is in the returned state
\* under its own secret and signature, and the balance counts every proof of
\* the state.
C30_DedupBySecretAndSignature ==
    Fetched =>
        /\ \A e \in ReadableTokens(log) :
              Surviving(log, e)
              => \A p \in Range(e.proofs) :
                    \E q \in ProofSet(state) : q.secret = p.secret /\ q.c = p.c
        /\ state.balance = SumAmounts(state.proofs)

----------------------------------------------------------------------------
(* Claims about the mint of an outgoing token *)

\* the proofs all lie in TOKEN events of the mint
ProofsOfTheMint(ps, events, mint_url) ==
    \A p \in Range(ps) :
        \E e \in TokenEvents(events) : e.mint = mint_url /\ p \in Range(e.proofs)

\* C31: a token returned by send_with_target_mint names a mint of the
\* wallet's mint list, and every proof in it comes from that mint; proofs of
\* other mints are never selected for it. (No successful send ends with a
\* token that names another mint or holds a proof of another mint.)
C31_TokenProofsAreOfItsMint ==
    [][\A amount \in SpendAmounts, target_mint \in SpendTargets :
          (/\ result'.op = "send"
           /\ result'.status = "ok"
           /\ ~(/\ MintOf(target_mint) \in Range(mints)
                /\ ProofsOfTheMint(result'.token, log, MintOf(target_mint))))
          => ~SendWithTargetMint(amount, target_mint)]_vars

----------------------------------------------------------------------------
(* Receiving: Nip60Wallet::record_receive and MultimintWallet::receive beside
   Nip60Wallet::redeem *)

RecordReceiveFailPoints == {"none", "publish_token", "publish_history"}

\* record_receive(token_string): the proofs of the parsed token go into a
\* TOKEN event under the token's mint URL, then the history entry
RecordReceive(token) ==
    /\ \E fail \in RecordReceiveFailPoints :
         LET total_amount == SumAmounts(token.proofs)
             token_event == TokenEv(NextId, now, "ok", token.mint, token.proofs, {})
             history == HistoryEv(NextId + 1, now, "in", total_amount,
                                  <<<<NextId, "created">>>>)
             status == IF ~token.parses THEN "parse_failed"
                       ELSE IF fail = "publish_token" THEN "publish_token_failed"
                       ELSE IF fail = "publish_history" THEN "publish_history_failed"
                       ELSE "ok"
             events == IF status = "ok" THEN <<token_event, history>>
                       ELSE IF status = "publish_history_failed" THEN <<token_event>>
                       ELSE <<>>
         IN  /\ Len(log) + Len(events) <= MaxLog
             /\ log' = log \o events
             /\ result' = Result("record_receive", status,
                                 IF status = "ok" THEN total_amount ELSE 0, <<>>, 0)
    /\ UNCHANGED <<state, mints, spent, now, fresh, mint_infos, inflight,
                   mint_wallets>>

MultimintReceiveFailPoints == {"none", "add_mint", "receive"}

\* MultimintWallet::receive(token): a mint that is not registered is added,
\* then the wallet of the mint swaps the token's proofs
MultimintReceive(token) ==
    /\ \E fail \in MultimintReceiveFailPoints :
         LET known == token.mint \in DOMAIN mint_wallets
             added == IF known THEN mint_wallets
                      ELSE mint_wallets
                           @@ (token.mint :> MintWalletInfo("msat", "msat", 0, TRUE))
             swapped == fail # "receive" /\ ProofIds(token.proofs) \cap spent = {}
         IN  IF ~token.parses
             THEN /\ result' = MultimintResult("multimint_receive", "parse_failed", 0, <<>>)
                  /\ UNCHANGED <<mint_wallets, spent>>
             ELSE IF ~known /\ fail = "add_mint"
             THEN /\ result' = MultimintResult("multimint_receive", "add_mint_failed", 0, <<>>)
                  /\ UNCHANGED <<mint_wallets, spent>>
             ELSE IF ~swapped
             THEN /\ result' = MultimintResult("multimint_receive", "receive_failed", 0, <<>>)
                  /\ mint_wallets' = added
                  /\ spent' = spent
             ELSE /\ result' = MultimintResult("multimint_receive", "ok",
                                               SumAmounts(token.proofs), <<>>)
                  /\ mint_wallets' = [added EXCEPT ![token.mint].balance =
                                         @ + SumAmounts(token.proofs)]
                  /\ spent' = spent \cup ProofIds(token.proofs)
    /\ UNCHANGED <<log, state, mints, now, fresh, mint_infos, inflight>>

NextReceive ==
    \/ \E token \in TokenStrings : Redeem(token)
    \/ \E token \in TokenStrings : RecordReceive(token)
    \/ \E token \in TokenStrings : MultimintReceive(token)
    \/ Tick

SpecReceive == Init /\ [][NextReceive]_vars

----------------------------------------------------------------------------
(* Claims about received tokens *)

\* C32: no operation persists proofs of a token handed in from outside unless
\* the token's mint is in the trusted mint list and a mint swap has exchanged
\* the proofs: every TOKEN event published is of a trusted mint and holds none
\* of the proofs of a token string, the proofs of a token are spent at the mint
\* whenever value of it is kept, and no receive registers a mint.
C32_OnlyTrustedSwappedProofsPersist ==
    [][/\ \A e \in Range(Published(log, log')) :
             e.kind = "token"
             => /\ e.mint \in Range(mints)
                /\ \A token \in TokenStrings :
                      Range(e.proofs) \cap Range(token.proofs) = {}
       /\ result'.op = "multimint_receive"
          => /\ DOMAIN mint_wallets' \subseteq Range(mints)
             /\ mint_wallets' # mint_wallets
                => DOMAIN mint_wallets' = DOMAIN mint_wallets]_vars

----------------------------------------------------------------------------
(* The detailed balance: WalletOperations::get_detailed_balance *)

\* proofs of mintA, whose keyset ksm is in millis
M4096 == Proof(4096, "ksm", 41, 41)
M1024 == Proof(1024, "ksm", 42, 42)
M512a == Proof(512, "ksm", 43, 43)
M512b == Proof(512, "ksm", 44, 44)
M256 == Proof(256, "ksm", 45, 45)
M128 == Proof(128, "ksm", 46, 46)
M8 == Proof(8, "ksm", 47, 47)

\* TOKEN events of the wallet's key: 5000 millis, 1024 millis in one proof or
\* in two, and base-unit proofs of mintB
UnitTokens ==
    {<<"mintA", <<M4096, M512a, M256, M128, M8>>>>,
     <<"mintA", <<M1024>>>>, <<"mintA", <<M512a, M512b>>>>,
     <<"mintB", <<S4, S1>>>>}

\* mint_infos after initialize_mint_infos: mintA's keyset in millis (or no
\* keysets when its request failed), mintB's in the base unit
UnitInfoChoices ==
    {[m \in {"mintA", "mintB"} |-> IF m = "mintA" THEN a
                                   ELSE <<KeysetInfo("ks2", "sat", TRUE)>>] :
        a \in {<<KeysetInfo("ksm", "msat", TRUE)>>, <<>>}}

\* resolve_mint_url_from_keyset, else the text of the keyset id
ActualMintUrl(infos, keyset_id) ==
    LET found == MintInfoByKeysetId(infos, keyset_id)
    IN  IF found = {} THEN keyset_id ELSE CHOOSE m \in found : TRUE

\* get_unit_for_mint: the unit of the first keyset, else sat
UnitForMint(infos, mint_url) ==
    IF mint_url \in DOMAIN infos /\ infos[mint_url] # <<>>
    THEN infos[mint_url][1].unit
    ELSE "sat"

MsatToSat(msat) == msat \div 1000

SatToMsat(sat) == sat * 1000

\* the loop of get_detailed_balance over the proofs
RECURSIVE DetailedBalance(_, _, _)
DetailedBalance(infos, proofs, acc) ==
    IF proofs = <<>> THEN acc
    ELSE LET proof == Head(proofs)
             url == ActualMintUrl(infos, proof.keyset_id)
             unit == UnitForMint(infos, url)
             amount == proof.amount
             entry == IF url \in DOMAIN acc.by_mint THEN acc.by_mint[url]
                      ELSE [unit |-> unit, amount |-> 0, proof_count |-> 0]
             by_mint == [m \in DOMAIN acc.by_mint \cup {url} |->
                            IF m = url
                            THEN [entry EXCEPT !.amount = @ + amount,
                                               !.proof_count = @ + 1]
                            ELSE acc.by_mint[m]]
         IN  DetailedBalance(infos, Tail(proofs),
                IF unit = "msat"
                THEN [total_msats |-> acc.total_msats + amount,
                      total_sats |-> acc.total_sats + MsatToSat(amount),
                      by_mint |-> by_mint]
                ELSE [total_sats |-> acc.total_sats + amount,
                      total_msats |-> acc.total_msats + SatToMsat(amount),
                      by_mint |-> by_mint])

WalletBalance(st, balance) ==
    [op |-> "get_detailed_balance", status |-> st, value |-> 0, token |-> <<>>,
     mint_calls |-> 0, total_sats |-> balance.total_sats,
     total_msats |-> balance.total_msats, by_mint |-> balance.by_mint]

\* get_detailed_balance(wallet): get_unspent_proofs, then the loop
GetDetailedBalance ==
    /\ \E events \in Deliveries(Fetchable(log)), transport_ok \in BOOLEAN :
         LET zero == [total_sats |-> 0, total_msats |-> 0, by_mint |-> <<>>]
             st == Reconstruct(events)
         IN  IF ~transport_ok
             THEN /\ result' = WalletBalance("fetch_failed", zero)
                  /\ state' = state
             ELSE /\ result' = WalletBalance("ok",
                                   DetailedBalance(mint_infos, st.proofs, zero))
                  /\ state' = st
    /\ UNCHANGED <<log, mints, spent, now, fresh, mint_infos, inflight, mint_wallets>>

\* a TOKEN event of the wallet's key is on the relays
RelayUnitToken ==
    /\ Len(log) < MaxHeld
    /\ \E tok \in UnitTokens :
         log' = Append(log, TokenEv(NextId, now, "ok", tok[1], tok[2], {}))
    /\ state' = EmptyState
    /\ result' = Result("publish", "ok", 0, <<>>, 0)
    /\ UNCHANGED <<mints, spent, now, fresh, mint_infos, inflight, mint_wallets>>

InitDetailed ==
    /\ log = <<>>
    /\ state = EmptyState
    /\ result = Result("none", "ok", 0, <<>>, 0)
    /\ mints = <<"mintA", "mintB">>
    /\ spent = {}
    /\ now = 1
    /\ fresh = 0
    /\ mint_infos \in UnitInfoChoices
    /\ inflight = <<>>
    /\ mint_wallets = <<>>

NextDetailed ==
    \/ RelayUnitToken
    \/ GetDetailedBalance

SpecDetailed == InitDetailed /\ [][NextDetailed]_vars

----------------------------------------------------------------------------
(* Claims about the detailed balance *)

\* the unit the proofs of a mint are in
UnitOfMint(m) == IF m = "mintA" THEN "msat" ELSE "sat"

RECURSIVE SumOverMints(_, _, _)
SumOverMints(st, events, ms) ==
    IF ms = {} THEN 0
    ELSE LET m == CHOOSE x \in ms : TRUE
         IN  InBaseUnit(MintTotal(st, events, m), UnitOfMint(m))
             + SumOverMints(st, events, ms \ {m})

\* C33: total_sats of get_detailed_balance is the sum over the mints of each
\* mint's total in the base unit, a total in millis divided by 1000 once for
\* the mint, however the mint's balance is split into proofs: 5000 millis at
\* one mint count as 5 (the keysets of every mint being known).
C33_TotalSatsPerMint ==
    (/\ result.op = "get_detailed_balance"
     /\ result.status = "ok"
     /\ \A m \in Range(mints) : mint_infos[m] # <<>>)
    => result.total_sats = SumOverMints(state, log, Range(mints))


----------------------------------------------------------------------------
(* The balance of the history: calculate_balance_from_history *)

\* the sum of the amounts of the entries of one direction
RECURSIVE TotalOfDirection(_, _)
TotalOfDirection(history, direction) ==
    IF history = <<>> THEN 0
    ELSE (IF Head(history).direction = direction THEN Head(history).amount ELSE 0)
         + TotalOfDirection(Tail(history), direction)

\* get_spending_history: the SPENDING_HISTORY events of the wallet's key
SpendingHistoryOf(events) == SelectSeq(events, LAMBDA e : e.kind = "history")

HistoryBalance(st, total_in, total_out) ==
    [op |-> "calculate_balance_from_history", status |-> st,
     value |-> total_in - total_out, token |-> <<>>, mint_calls |-> 0,
     total_in |-> total_in, total_out |-> total_out]

\* calculate_balance_from_history: (total_in, total_out, net_balance, history)
CalculateBalanceFromHistory ==
    /\ \E transport_ok \in BOOLEAN :
         LET history == SpendingHistoryOf(log)
         IN  result' = IF transport_ok
                       THEN HistoryBalance("ok", TotalOfDirection(history, "in"),
                                           TotalOfDirection(history, "out"))
                       ELSE HistoryBalance("fetch_failed", 0, 0)
    /\ UNCHANGED <<log, state, mints, spent, now, fresh, mint_infos, inflight, mint_wallets>>

----------------------------------------------------------------------------
(* Claims about the balance of the history *)

\* C35: after successful redeem and send operations of one wallet on a log
\* that was empty, the net balance of the history (total in less total out)
\* is the balance fetch_wallet_state reconstructs.
C35_HistoryBalanceIsReconstructed ==
    (result.op = "calculate_balance_from_history" /\ result.status = "ok")
    => \A st \in FetchedStates(log) : st.balance = result.value

----------------------------------------------------------------------------
(* MultimintWallet: send, remove_mint *)

\* what MultimintWallet::send returned: the token strings joined in the Ok,
\* each given by the mint it is of and its amount
MultimintSendResult(st, tokens) ==
    [op |-> "multimint_send", status |-> st, value |-> 0, token |-> <<>>,
     mint_calls |-> 0, balances_by_mint |-> <<>>, tokens |-> tokens]

\* CashuWalletClient::send(amount) on the CDK wallet of a mint: the token, and
\* the wallet's balance less the amount; an Err when the wallet holds less or
\* the mint cannot be reached
WalletSend(wallets, mint_url, amount, reached) ==
    IF reached /\ wallets[mint_url].balance >= amount
    THEN [status |-> "ok",
          wallets |-> [wallets EXCEPT ![mint_url].balance = @ - amount],
          tokens |-> <<[mint |-> mint_url, amount |-> amount]>>]
    ELSE [status |-> "send_failed", wallets |-> wallets, tokens |-> <<>>]

\* find_best_mint_for_amount: the active mints whose balance covers the amount,
\* the least balance first (the mints all carry the unit Msat, so the priority
\* is the same for all); any of the mints of least balance can be candidates[0]
BestMintsForAmount(wallets, amount) ==
    LET candidates == {u \in DOMAIN wallets :
                          wallets[u].active /\ wallets[u].balance >= amount}
    IN  {u \in candidates :
            \A v \in candidates : wallets[u].balance <= wallets[v].balance}

SingleMintFailPoints == {"none", "balance", "send"}

\* send_from_single_mint(amount, options); preferred is options.preferred_mint
\* as a set, empty for None
SendFromSingleMint(amount, preferred) ==
    \E fail \in SingleMintFailPoints :
      LET best == BestMintsForAmount(mint_wallets, amount)
          early(status) ==
              /\ mint_wallets' = mint_wallets
              /\ result' = MultimintSendResult(status, <<>>)
          from(mint_url) ==
              LET sent == WalletSend(mint_wallets, mint_url, amount, fail # "send")
              IN  IF fail = "balance" THEN early("wallet_failed")
                  ELSE IF mint_wallets[mint_url].balance < amount
                  THEN early("insufficient_balance")
                  ELSE /\ mint_wallets' = sent.wallets
                       /\ result' = MultimintSendResult(sent.status, sent.tokens)
      IN  IF preferred # {}
          THEN IF ~(preferred \subseteq DOMAIN mint_wallets)
               THEN early("preferred_mint_not_found")
               ELSE \E mint_url \in preferred : from(mint_url)
          ELSE IF fail = "balance"
                  /\ \E u \in DOMAIN mint_wallets : mint_wallets[u].active
          THEN early("wallet_failed")
          ELSE IF best = {} THEN early("no_mint_has_sufficient_balance")
          ELSE \E mint_url \in best : from(mint_url)

\* the mint the loop of send_split_across_mints takes next: balances_by_mint
\* sorted by balance, the greatest first
NextByBalance(wallets, urls) ==
    LET top == CHOOSE b \in {wallets[u].balance : u \in urls} :
                  \A u \in urls : wallets[u].balance <= b
    IN  CHOOSE u \in urls : wallets[u].balance = top

\* the loop of send_split_across_mints over the sorted balances; the send of
\* turn fail_at of the loop returns an Err (0: none does)
RECURSIVE SplitLoop(_, _, _, _, _, _)
SplitLoop(wallets, urls, remaining_amount, tokens, turn, fail_at) ==
    IF urls = {} \/ remaining_amount = 0
    THEN [status |-> IF remaining_amount > 0 THEN "could_not_fulfill" ELSE "ok",
          wallets |-> wallets,
          tokens |-> IF remaining_amount > 0 THEN <<>> ELSE tokens]
    ELSE LET mint_url == NextByBalance(mint_wallets, urls)
             balance == mint_wallets[mint_url].balance
             send_amount == IF remaining_amount < balance THEN remaining_amount
                            ELSE balance
             sent == WalletSend(wallets, mint_url, send_amount, turn # fail_at)
         IN  IF send_amount = 0
             THEN SplitLoop(wallets, urls \ {mint_url}, remaining_amount, tokens,
                            turn, fail_at)
             ELSE IF sent.status # "ok"
             THEN [status |-> "send_failed", wallets |-> wallets, tokens |-> <<>>]
             ELSE SplitLoop(sent.wallets, urls \ {mint_url},
                            remaining_amount - send_amount, tokens \o sent.tokens,
                            turn + 1, fail_at)

SplitFailPoints == {0, 1, 2}

\* send_split_across_mints(amount, options)
SendSplitAcrossMints(amount) ==
    \E fail_at \in SplitFailPoints, balance_ok \in BOOLEAN :
      LET active == {u \in DOMAIN mint_wallets : mint_wallets[u].active}
          run == SplitLoop(mint_wallets, active, amount, <<>>, 1, fail_at)
          early(status) ==
              /\ mint_wallets' = mint_wallets
              /\ result' = MultimintSendResult(status, <<>>)
      IN  IF ~balance_ok /\ active # {} THEN early("wallet_failed")
          ELSE IF TotalBalance(mint_wallets, DOMAIN mint_wallets) < amount
          THEN early("insufficient_total_balance")
          ELSE /\ mint_wallets' = run.wallets
               /\ result' = MultimintSendResult(run.status, run.tokens)

\* MultimintWallet::send(amount, options)
MultimintSend(amount, preferred, split_across_mints) ==
    /\ IF split_across_mints THEN SendSplitAcrossMints(amount)
       ELSE SendFromSingleMint(amount, preferred)
    /\ UNCHANGED <<log, state, mints, spent, now, fresh, mint_infos, inflight>>

\* The split send reaches a second mint only when the amount is more than the
\* greatest balance and no more than the total, which counts a thousandth of
\* each balance: with more than a thousand mints.
ManyMints == 1001

MaxDrained == 3     \* mints a send has drawn on, beyond which no send is made

ManyAmounts == {1, ManyMints}

Drained == {u \in DOMAIN mint_wallets : mint_wallets[u].balance < 1000}

\* add_mint for each of the mints, and 1000 msat received at each
InitManyMints ==
    /\ log = <<>>
    /\ state = EmptyState
    /\ result = Result("none", "ok", 0, <<>>, 0)
    /\ mints = <<>>
    /\ spent = {}
    /\ now = 1
    /\ fresh = 0
    /\ mint_infos = <<>>
    /\ inflight = <<>>
    /\ mint_wallets = [u \in 1..ManyMints |-> MintWalletInfo("msat", "msat", 1000, TRUE)]

NextManyMints ==
    \/ \E mint_url \in 1..2, active \in BOOLEAN : SetMintActive(mint_url, active)
    \/ /\ Cardinality(Drained) < MaxDrained
       /\ \E amount \in ManyAmounts : MultimintSend(amount, {}, TRUE)

SpecManyMints == InitManyMints /\ [][NextManyMints]_vars

----------------------------------------------------------------------------
(* Claims about MultimintWallet::send *)

\* C36: a send with split_across_mints is all or nothing. When it returns an
\* Err, the send at one mint having failed after other mints produced their
\* tokens, no balance of a mint has gone down (no token made is lost with the
\* error).
C36_SplitSendAllOrNothing ==
    [][(result'.op = "multimint_send" /\ result'.status # "ok")
       => \A u \in DOMAIN mint_wallets :
             mint_wallets'[u].balance = mint_wallets[u].balance]_vars


\* C37: after an update_config that returned Ok, the mints with a cached
\* MintInfo are the mints of the configured list: get_mint_info has no answer
\* for a mint that was taken off the list.
C37_MintInfosFollowConfig ==
    (result.op = "update_config" /\ result.status = "ok")
    => DOMAIN mint_infos = Range(mints)

----------------------------------------------------------------------------
(* MultimintWallet: the registered mints *)

\* mint_wallets without the entry of a mint
WithoutMint(wallets, mint_url) ==
    [u \in DOMAIN wallets \ {mint_url} |-> wallets[u]]

\* mutant: the mint is removed whatever its balance
RemoveMint_IgnoresBalance(mint_url) ==
    /\ \E balance_ok \in BOOLEAN :
         IF mint_url \notin DOMAIN mint_wallets
         THEN /\ mint_wallets' = mint_wallets
              /\ result' = MultimintResult("remove_mint", "mint_not_found", 0, <<>>)
         ELSE IF ~balance_ok
         THEN /\ mint_wallets' = mint_wallets
              /\ result' = MultimintResult("remove_mint", "wallet_failed", 0, <<>>)
         ELSE /\ mint_wallets' = WithoutMint(mint_wallets, mint_url)
              /\ result' = MultimintResult("remove_mint", "ok", 0, <<>>)
    /\ UNCHANGED <<log, state, mints, spent, now, fresh, mint_infos, inflight>>

\* remove_mint
RemoveMint(mint_url) ==
    /\ \E balance_ok \in BOOLEAN :
         IF mint_url \notin DOMAIN mint_wallets
         THEN /\ mint_wallets' = mint_wallets
              /\ result' = MultimintResult("remove_mint", "mint_not_found", 0, <<>>)
         ELSE IF ~balance_ok      \* get_mint_balance(..)? returned an Err
         THEN /\ mint_wallets' = mint_wallets
              /\ result' = MultimintResult("remove_mint", "wallet_failed", 0, <<>>)
         ELSE IF mint_wallets[mint_url].balance > 0
         THEN /\ mint_wallets' = mint_wallets
              /\ result' = MultimintResult("remove_mint", "non_zero_balance", 0, <<>>)
         ELSE /\ mint_wallets' = WithoutMint(mint_wallets, mint_url)
              /\ result' = MultimintResult("remove_mint", "ok", 0, <<>>)
    /\ UNCHANGED <<log, state, mints, spent, now, fresh, mint_infos, inflight>>

MultimintAmounts == {3, 5000}

\* options.preferred_mint: None, or Some of a mint
PreferredMints == {{}} \cup {{u} : u \in MintUrls}

\* the operations of a MultimintWallet; a send is made from balances as they
\* were received
NextMultimintOps ==
    \/ \E mint_url \in MintUrls : AddMint(mint_url)
    \/ \E mint_url \in MintUrls : RemoveMint(mint_url)
    \/ \E mint_url \in MintUrls, active \in BOOLEAN : SetMintActive(mint_url, active)
    \/ \E mint_url \in MintUrls, b \in Balances : WalletBalanceChanges(mint_url, b)
    \/ GetTotalBalance
    \/ /\ \A u \in DOMAIN mint_wallets : mint_wallets[u].balance \in Balances
       /\ \E amount \in MultimintAmounts, preferred \in PreferredMints,
             split \in BOOLEAN : MultimintSend(amount, preferred, split)

SpecMultimintOps == InitMultimint /\ [][NextMultimintOps]_vars

----------------------------------------------------------------------------
(* Claims about the registered mints *)

\* C38: remove_mint removes a mint only when it is registered and its balance
\* is zero, and removes that mint alone; add_mint leaves every registered mint
\* as it is and only adds one that was not registered; and when either
\* returns an error the registered mints are as they were.
C38_RegisteredMintsAreGuarded ==
    [][/\ result'.op = "remove_mint" =>
            IF result'.status = "ok"
            THEN \E u \in DOMAIN mint_wallets :
                    /\ mint_wallets[u].balance = 0
                    /\ mint_wallets' = WithoutMint(mint_wallets, u)
            ELSE mint_wallets' = mint_wallets
       /\ result'.op = "add_mint" =>
            /\ \A u \in DOMAIN mint_wallets :
                  u \in DOMAIN mint_wallets' /\ mint_wallets'[u] = mint_wallets[u]
            /\ IF result'.status = "ok"
               THEN Cardinality(DOMAIN mint_wallets')
                        = Cardinality(DOMAIN mint_wallets) + 1
               ELSE mint_wallets' = mint_wallets]_vars

\* a mint with no balance was removed while another, holding value, stays
C38_Witness ==
    /\ result.op = "remove_mint"
    /\ result.status = "ok"
    /\ \E u \in DOMAIN mint_wallets : mint_wallets[u].balance > 0

\* C39: a mint set inactive with set_mint_active(url, false) is not the source
\* of a send (single mint, preferred mint or split) and is not counted by
\* get_total_balance, until it is set active again.
C39_InactiveMintIsNotUsed ==
    [][/\ result'.op = "multimint_send" =>
            \A u \in DOMAIN mint_wallets :
               ~mint_wallets[u].active =>
                  /\ mint_wallets'[u].balance = mint_wallets[u].balance
                  /\ \A i \in 1..Len(result'.tokens) : result'.tokens[i].mint # u
       /\ (result'.op = "get_total_balance" /\ result'.status = "ok") =>
            /\ \A u \in DOMAIN result'.balances_by_mint : mint_wallets[u].active
            /\ result'.value =
                  TotalBalance(mint_wallets,
                               {u \in DOMAIN mint_wallets : mint_wallets[u].active})]_vars

----------------------------------------------------------------------------
(* The history by mint: get_event_history_by_mint *)

\* an element of SpendingHistory.events as create_spending_history writes it:
\* (tag name, event id, relay, marker)
EventRef(ref) == <<"e", ref[1], "", ref[2]>>

\* amount.parse::<u64>().unwrap_or(0) of the text the loop takes for the
\* amount, which is the relay field: it is never a number
AmountValue(text) == 0

\* EventHistoryByMint
EventHistoryByMint(mint) ==
    [mint |-> mint, total_received |-> 0, total_spent |-> 0, events |-> <<>>]

\* the body of the inner loop for one element of history.events, destructured
\* as (mint, _, amount, event_id)
AddEventDetail(by_mint, history, tuple) ==
    LET mint == tuple[1]
        amount_value == AmountValue(tuple[3])
        event_id == tuple[4]
        detail == [event_id |-> event_id, direction |-> history.direction,
                   amount |-> amount_value, timestamp |-> history.created_at]
    IN  IF mint \notin DOMAIN by_mint THEN by_mint
        ELSE [by_mint EXCEPT
                 ![mint].total_received =
                     IF history.direction = "in" THEN @ + amount_value ELSE @,
                 ![mint].total_spent =
                     IF history.direction = "out" THEN @ + amount_value ELSE @,
                 ![mint].events = Append(@, detail)]

RECURSIVE AddEventDetails(_, _, _)
AddEventDetails(by_mint, history, refs) ==
    IF refs = <<>> THEN by_mint
    ELSE AddEventDetails(AddEventDetail(by_mint, history, EventRef(Head(refs))),
                         history, Tail(refs))

\* the loop over the spending history
RECURSIVE HistoryByMint(_, _)
HistoryByMint(by_mint, spending_history) ==
    IF spending_history = <<>> THEN by_mint
    ELSE HistoryByMint(AddEventDetails(by_mint, Head(spending_history),
                                       Head(spending_history).events),
                       Tail(spending_history))

\* events.sort_by(|a, b| b.timestamp.cmp(&a.timestamp)): the newest first,
\* details of one timestamp in the order they were pushed
RECURSIVE SortByTimestamp(_)
SortByTimestamp(details) ==
    IF details = <<>> THEN <<>>
    ELSE LET d == Head(details)
             rest == SortByTimestamp(Tail(details))
         IN  SelectSeq(rest, LAMBDA x : x.timestamp > d.timestamp)
             \o <<d>>
             \o SelectSeq(rest, LAMBDA x : x.timestamp <= d.timestamp)

EventHistoryResult(st, by_mint) ==
    [op |-> "get_event_history_by_mint", status |-> st, value |-> 0,
     token |-> <<>>, mint_calls |-> 0, by_mint |-> by_mint]

\* get_event_history_by_mint(mint_url); mint_url as a set, empty for None
GetEventHistoryByMint(mint_url) ==
    /\ \E transport_ok \in BOOLEAN :
         LET target_mints == IF mint_url # {} THEN mint_url ELSE Range(mints)
             empty == [m \in target_mints |-> EventHistoryByMint(m)]
         IN  result' = IF transport_ok
                       THEN LET found == HistoryByMint(empty, SpendingHistoryOf(log))
                            IN  EventHistoryResult("ok",
                                   [m \in DOMAIN found |->
                                       [found[m] EXCEPT
                                           !.events = SortByTimestamp(@)]])
                       ELSE EventHistoryResult("fetch_failed", <<>>)
    /\ UNCHANGED <<log, state, mints, spent, now, fresh, mint_infos, inflight, mint_wallets>>

\* the Option<String> handed to get_event_history_by_mint
HistoryTargets == {{}, {"mintA"}}

\* the runs of one wallet in which every redeem and every send returned Ok
NextHistory ==
    \/ \E token \in TokenStrings : Redeem(token) /\ result'.status = "ok"
    \/ \E amount \in 0..MaxSend, target_mint \in TargetMints :
          SendWithTargetMint(amount, target_mint) /\ result'.status = "ok"
    \/ CalculateBalanceFromHistory
    \/ \E mint_url \in HistoryTargets : GetEventHistoryByMint(mint_url)
    \/ GetWalletState
    \/ Tick

SpecHistory == Init /\ [][NextHistory]_vars

----------------------------------------------------------------------------
(* Claims about the history by mint *)

\* a history entry concerns a mint when it refers to a TOKEN event of the mint
Concerns(events, history, mint) ==
    \E i \in 1..Len(history.events) :
       \E e \in TokenEvents(events) :
          e.id = history.events[i][1] /\ e.mint = mint

EntriesOf(events, mint, direction) ==
    SelectSeq(events, LAMBDA h : /\ h.kind = "history"
                                 /\ h.direction = direction
                                 /\ Concerns(events, h, mint))

\* C40: for each configured mint get_event_history_by_mint reports as
\* total_received and total_spent the sums of the amounts of the `in` and of
\* the `out` history entries that concern the mint, and lists one event detail
\* for each of these entries.
C40_HistoryByMintSumsEntries ==
    (result.op = "get_event_history_by_mint" /\ result.status = "ok")
    => \A m \in DOMAIN result.by_mint \cap Range(mints) :
          LET received == EntriesOf(log, m, "in")
              sent == EntriesOf(log, m, "out")
          IN  /\ result.by_mint[m].total_received = TotalOfDirection(received, "in")
              /\ result.by_mint[m].total_spent = TotalOfDirection(sent, "out")
              /\ Len(result.by_mint[m].events) = Len(received) + Len(sent)

====
